---- MODULE Spec2Model ----
(***************************************************************************)
(* Model of the che-theia generator's InitSources class                    *)
(* (generator/src/init-sources.ts): the run of generate() over the         *)
(* declared source entries, and the pure dependency-rewrite functions.     *)
(*                                                                         *)
(* Strings that the code takes apart are modelled by their '/'-separated   *)
(* segments: a path '/ws/packages/@che-f1' is <<"ws","packages","@che-f1">>*)
(* and a package name '@theia/core' is <<"@theia","core">>.                *)
(***************************************************************************)
EXTENDS Integers, Sequences, FiniteSets, TLC

VARIABLES
    \* ---- the run of generate() ----
    gpc,                    \* position of generate(): see GenStates
    isDevMode,              \* generate's isDevMode argument
    sources,                \* extensionsYaml.sources: sequence of ISource records
    pc,                     \* position of each entry's map callback / addExtension
    pending,                \* per entry: indexes of declared folders whose ensureSymlink is in flight
    linkAcc,                \* per entry: the local symbolicLinks array being filled
    extensions,             \* this.extensions: entries pushed so far (indexes into sources)
    sourceLocationAliases,  \* this.sourceLocationAliases
    globalDevDependencies,  \* this.globalDevDependencies
    symlinks,               \* file system: link path -> target path
    manifests,              \* file system: package directory -> package.json document
    assemblyObj,            \* the object require(assembly package.json) returns (module cache)
    assemblyDisk,           \* file system: dependencies of the assembly package.json on disk
    inflight,               \* per entry: the JSON text handed to fs.writeFile, not yet landed
    yarnWorkspaces,         \* the workspace index of this run ("none" field built = FALSE before)
    tsRefs,                 \* file system: package directory -> references of its tsconfig.json
    rootRefs,               \* file system: references of the root tsconfig
    asmRefs,                \* file system: references of the assembly tsconfig
    hist,                   \* history: what has happened, per entry and per phase;
                            \* config: the call of readConfigurationAndGenerate
                            \* and its outcome, until generate has read the file
    \* ---- direct calls of the pure functions ----
    call,                   \* the last direct call: its arguments and what it returned
    \* ---- TheiaThemePreferenceSynchronizer and the two services it listens to ----
    uiChange,               \* this.uiChange
    preferenceChange,       \* this.preferenceChange
    activeTheme,            \* ThemeService: the id of the current theme
    themePreference,        \* PreferenceService: the value of 'workbench.appearance.colorTheme'
    prefEvents,             \* PreferenceService: the set calls whose write has not landed
                            \* (their change events are still to come)
    themeLog,               \* history: the calls the two handlers have made
    \* ---- PreferencesProvider.setPluginProperties and the preference service ----
    workspacePreferences,   \* PreferenceService: key -> value of the preferences that have one
    pendingSets,            \* PreferenceService: the set calls whose write has not landed
    setLog,                 \* history: the has/set calls of setPreferenceValue, the warnings
    \* ---- RemoteTerminalWidget, the terminal server and the attach socket ----
    options,                \* this.options.closeWidgetOnExitOrError, this.kind
    termServer,             \* this.termServer is set
    terminalId,             \* this.terminalId (-1 until a terminal is created or attached)
    socket,                 \* this.socket: "none", or the state of the ReconnectingWebSocket
    waitForRemoteConnection,\* this.waitForRemoteConnection: which Deferred, and is it resolved
    closeOutputConnectionDisposable, \* "undefined", "assigned" or "disposed"
    processGone,            \* this.processGone
    widgetDisposed,         \* dispose() has run
    tasks,                  \* the start / reconnect calls: where each one is
    server,                 \* the terminal server and the connection of its proxy
    widgetLog               \* history: sockets created, requests sent, handler outcomes

runVars == <<gpc, isDevMode, sources, pc, pending, linkAcc, extensions,
             sourceLocationAliases, symlinks, assemblyObj, assemblyDisk,
             inflight, yarnWorkspaces, tsRefs, rootRefs, asmRefs, hist>>

themeVars == <<uiChange, preferenceChange, activeTheme, themePreference,
               prefEvents, themeLog>>

providerVars == <<workspacePreferences, pendingSets, setLog>>

widgetVars == <<options, termServer, terminalId, socket, waitForRemoteConnection,
                closeOutputConnectionDisposable, processGone, widgetDisposed,
                tasks, server, widgetLog>>

browserVars == <<themeVars, providerVars, widgetVars>>

generatorVars == <<runVars, globalDevDependencies, manifests>>

vars == <<gpc, isDevMode, sources, pc, pending, linkAcc, extensions,
          sourceLocationAliases, globalDevDependencies, symlinks, manifests,
          assemblyObj, assemblyDisk, inflight, yarnWorkspaces, tsRefs,
          rootRefs, asmRefs, hist, call, browserVars>>

-----------------------------------------------------------------------------
(* Bounds of the model *)

\* the longest declared sources list
MaxEntries == 2

-----------------------------------------------------------------------------
(* Strings and paths *)

\* path.basename: the last segment
Basename(p) == IF Len(p) = 0 THEN "" ELSE p[Len(p)]

RECURSIVE Normalize(_, _)
\* path.resolve's normalisation: '.' and empty segments vanish, '..' pops
Normalize(acc, segs) ==
    IF segs = <<>> THEN acc
    ELSE LET s == Head(segs) IN
         IF s = "." \/ s = "" THEN Normalize(acc, Tail(segs))
         ELSE IF s = ".." THEN
             Normalize(IF acc = <<>> THEN acc ELSE SubSeq(acc, 1, Len(acc) - 1), Tail(segs))
         ELSE Normalize(Append(acc, s), Tail(segs))

\* path.resolve(base, rel) for an absolute base and a relative rel
PathResolve(base, rel) == Normalize(<<>>, base \o rel)

\* InitSources.PREFIX_PACKAGES_EXTENSIONS
PREFIX_PACKAGES_EXTENSIONS == "@che-"

\* constructor arguments (the folders of the workspace)
rootFolder == <<"ws">>
packagesFolder == <<"ws", "packages">>
pluginsFolder == <<"ws", "plugins">>
cheTheiaFolder == <<"ws", "che-theia">>
assemblyFolder == <<"ws", "assembly">>
theiaVersion == "1.2.3"

\* String.prototype.startsWith('@theia/') on a package name given by its segments
StartsWithTheia(dependencyKey) == Len(dependencyKey) >= 2 /\ dependencyKey[1] = "@theia"

-----------------------------------------------------------------------------
(* Dependency Rewriter: updateDependency and updateDependencies *)

\* the most entries a generated dependency mapping holds
MaxDeps == 2
\* the most entries a generated global dev-dependency set holds
MaxGlobal == 1

\* package names used as dependency keys
DepNames == { <<"@theia", "core">>, <<"rimraf">>, <<"lodash">> }
\* version strings a manifest may pin ("" is the empty version string)
Versions == { "", "5.6.7", "0.0.1" }

\* the empty mapping {}
EmptyMap == [k \in {} |-> ""]

\* the theme synchronizer and its services before anything has happened
ThemeIdle ==
    /\ uiChange = FALSE
    /\ preferenceChange = FALSE
    /\ activeTheme = "dark"
    /\ themePreference = "dark"
    /\ prefEvents = <<>>
    /\ themeLog = [configured |-> FALSE, changes |-> <<>>, calls |-> <<>>]

\* the preference service before the preferences provider has started
ProviderIdle ==
    /\ workspacePreferences = EmptyMap
    /\ pendingSets = <<>>
    /\ setLog = <<>>

\* the terminal widget after init(), with a server that has no terminal
WidgetIdle ==
    /\ options = [closeWidgetOnExitOrError |-> FALSE, kind |-> "user"]
    /\ termServer = FALSE
    /\ terminalId = -1
    /\ socket = "none"
    /\ waitForRemoteConnection = [gen |-> 0, resolved |-> FALSE]
    /\ closeOutputConnectionDisposable = "undefined"
    /\ processGone = FALSE
    /\ widgetDisposed = FALSE
    /\ tasks = <<>>
    /\ server = [connection |-> "open", closeHandlers |-> 0, openHandlers |-> 0,
                 terminals |-> {}, created |-> 0]
    /\ widgetLog = [sockets |-> 0, resize |-> "none", typeError |-> FALSE,
                    resolved |-> EmptyMap, reconnects |-> EmptyMap]

\* the frontend contributions before anything has happened to them
BrowserIdle == ThemeIdle /\ ProviderIdle /\ WidgetIdle

\* Map.get(key) answers undefined for a missing key; `if (rest)` is false for
\* undefined and for the empty string
Truthy(map, key) == key \in DOMAIN map /\ map[key] # ""

\* InitSources.updateDependency
updateDependency(dependencyKey, dependencyValue) ==
    IF Truthy(globalDevDependencies, dependencyKey)
    THEN globalDevDependencies[dependencyKey]
    ELSE IF StartsWithTheia(dependencyKey)
         THEN "^" \o theiaVersion
         ELSE dependencyValue

\* obj[key] = value on a document: a new key goes last, an old one keeps its place
SetKey(order, key) ==
    IF \E i \in 1..Len(order) : order[i] = key THEN order ELSE Append(order, key)

\* `dependencies ? Object.keys(dependencies) : []`
KeysOf(has, map) == IF has THEN DOMAIN map ELSE {}

\* a mutant of RewritePackage: the typed package is serialised, so the
\* fields the type does not know (license) are lost
RewritePackageTyped(m) ==
    [ order |-> SetKey(SetKey(SelectSeq(m.order, LAMBDA k : k # "license"),
                              "dependencies"), "devDependencies"),
      name |-> m.name,
      version |-> m.version,
      license |-> "",
      hasDependencies |-> TRUE,
      dependencies |-> [k \in KeysOf(m.hasDependencies, m.dependencies) |->
                            updateDependency(k, m.dependencies[k])],
      hasDevDependencies |-> TRUE,
      devDependencies |-> [k \in KeysOf(m.hasDevDependencies, m.devDependencies) |->
                            updateDependency(k, m.devDependencies[k])] ]

\* a mutant of RewritePackage: a mapping the manifest does not have stays absent
RewritePackageKeepAbsent(m) ==
    [ m EXCEPT
      !.dependencies = [k \in KeysOf(m.hasDependencies, m.dependencies) |->
                            updateDependency(k, m.dependencies[k])],
      !.devDependencies = [k \in KeysOf(m.hasDevDependencies, m.devDependencies) |->
                            updateDependency(k, m.devDependencies[k])] ]

\* updateDependencies, for one package: the raw object after both mappings
\* have been replaced (what is serialised when rewrite is set)
RewritePackage(m) ==
    [ m EXCEPT
      !.order = SetKey(SetKey(m.order, "dependencies"), "devDependencies"),
      !.hasDependencies = TRUE,
      !.dependencies = [k \in KeysOf(m.hasDependencies, m.dependencies) |->
                            updateDependency(k, m.dependencies[k])],
      !.hasDevDependencies = TRUE,
      !.devDependencies = [k \in KeysOf(m.hasDevDependencies, m.devDependencies) |->
                            updateDependency(k, m.devDependencies[k])] ]

\* the directory a link path leads to (a path that is no link is itself)
Realpath(p) == IF p \in DOMAIN symlinks THEN symlinks[p] ELSE p

\* the set of elements of a sequence
Range(s) == { s[i] : i \in 1..Len(s) }

\* a mutant of updateDependencies: the rewritten package is never written back
updateDependenciesDry(extSymbolicLinks, rewrite) == manifests

\* a mutant of updateDependencies: the file is written whatever the flag says
updateDependenciesAlways(extSymbolicLinks, rewrite) ==
    [ d \in DOMAIN manifests |->
        IF \E l \in Range(extSymbolicLinks) : Realpath(l) = d
        THEN RewritePackage(manifests[d])
        ELSE manifests[d] ]

\* updateDependencies(extension, rewrite): the package.json files afterwards
updateDependencies(extSymbolicLinks, rewrite) ==
    [ d \in DOMAIN manifests |->
        IF rewrite /\ \E l \in Range(extSymbolicLinks) : Realpath(l) = d
        THEN RewritePackage(manifests[d])
        ELSE manifests[d] ]

-----------------------------------------------------------------------------
(* The workspace the runs start from *)

\* local directories that exist before the run (fs.existsSync answers true)
LocalA == <<"home", "a", "x">>
LocalB == <<"home", "b", "x">>
ExistingDirs == { LocalA, LocalB }

\* remote repositories: RemoteR can be cloned, RemoteU is unreachable
RemoteR == <<"https:", "", "host", "r">>
RemoteU == <<"https:", "", "down", "u">>
ReachableRemotes == { RemoteR }

\* git refs the reachable repository has
DEV_BRANCH == "main"

\* a package.json document
Manifest(name, version, hasDeps, deps, hasDev, dev) ==
    [ order |-> <<"name", "version", "license">>
                  \o (IF hasDeps THEN <<"dependencies">> ELSE <<>>)
                  \o (IF hasDev THEN <<"devDependencies">> ELSE <<>>),
      name |-> name, version |-> version, license |-> "EPL-2.0",
      hasDependencies |-> hasDeps, dependencies |-> deps,
      hasDevDependencies |-> hasDev, devDependencies |-> dev ]

CoreDir == packagesFolder \o <<"core">>
CoreName == <<"@theia", "core">>
Sample1 == <<"@che-theia", "sample1">>

\* devDependencies of the root package.json
RootDevDependencies == (<<"rimraf">> :> "5.6.7")

\* the root package.json
RootManifest ==
    Manifest(<<"@eclipse-che", "theia-root">>, "0.0.0", FALSE, EmptyMap,
             TRUE, RootDevDependencies)

\* the package.json files of the workspace and of the repositories (those of
\* RemoteR are read only after its clone)
InitialManifests ==
    (CoreDir :> Manifest(CoreName, "1.2.3", TRUE, EmptyMap, FALSE, EmptyMap))
 @@ (rootFolder :> RootManifest)
 @@ (LocalA :> Manifest(<<"@che-theia", "ext-a">>, "0.0.9", TRUE,
                  (CoreName :> "0.0.1"), TRUE, (<<"rimraf">> :> "0.0.1")))
 @@ ((LocalA \o <<"f1">>) :> Manifest(Sample1, "0.1.2", TRUE,
                  (CoreName :> "0.0.1") @@ (<<"lodash">> :> "4.0.0"),
                  TRUE, (<<"rimraf">> :> "0.0.1")))
 @@ ((LocalA \o <<"f2">>) :> Manifest(<<"@che-theia", "sample2">>, "6.7.8", TRUE,
                  (CoreName :> "0.0.1") @@ (Sample1 :> "0.1.2"), FALSE, EmptyMap))
 @@ ((LocalA \o <<"n", "f1">>) :> Manifest(<<"@che-theia", "sample3">>, "3.0.0",
                  FALSE, EmptyMap, FALSE, EmptyMap))
 @@ (LocalB :> Manifest(<<"@che-theia", "ext-b">>, "9.8.7", FALSE, EmptyMap,
                  TRUE, (<<"rimraf">> :> "0.0.1")))
 @@ ((cheTheiaFolder \o <<"r">>) :> Manifest(<<"@che-theia", "ext-r">>, "2.0.0",
                  TRUE, (CoreName :> "0.0.1"), FALSE, EmptyMap))

\* dependencies of the assembly package.json before the run
InitialAssembly == (CoreName :> "1.2.3")

\* an entry as the yaml declares it (checkoutTo "" : not declared)
Declare(source, checkoutTo, hasExt, ext, hasPlug, plug) ==
    [ source |-> source, checkoutTo |-> checkoutTo,
      hasExtensions |-> hasExt, extensions |-> ext,
      hasPlugins |-> hasPlug, plugins |-> plug,
      hasClonedDir |-> FALSE, clonedDir |-> <<>>,
      hasExtLinks |-> FALSE, extSymbolicLinks |-> <<>>,
      hasPluginLinks |-> FALSE, pluginSymbolicLinks |-> <<>> ]

\* the entries a sources list is drawn from
Declared == <<
    Declare(LocalA, "", TRUE, << <<"f1">>, <<"f2">> >>, TRUE, << <<"p1">> >>),
    Declare(LocalA, "", TRUE, << <<"f1">>, <<"n", "f1">> >>, FALSE, <<>>),
    Declare(LocalA, "", FALSE, <<>>, FALSE, <<>>),
    Declare(LocalB, "foo", FALSE, <<>>, FALSE, <<>>),
    Declare(RemoteR, "foo", FALSE, <<>>, TRUE, <<>>),
    Declare(RemoteU, "", FALSE, <<>>, FALSE, <<>>) >>

\* the sources lists: 1..MaxEntries entries, in declaration order (the entries
\* are dispatched together, so their order in the list decides nothing)
SourceLists ==
    { [i \in DOMAIN f |-> Declared[f[i]]] :
        f \in { g \in UNION { [1..n -> 1..Len(Declared)] : n \in 1..MaxEntries } :
                  \A i \in 1..(Len(g) - 1) : g[i] <= g[i + 1] } }

\* the alias maps of the runs: none, the unreachable repository replaced by a
\* local working copy ('https://down/u=/home/b/x'), or replaced by the empty
\* string ('https://down/u=')
AliasChoices == { EmptyMap, (RemoteU :> LocalB), (RemoteU :> <<>>) }

Entries == 1..Len(sources)

\* the entries of the generate() call under way: those the instance holds
\* from earlier calls (hist.base of them) come first
Current == { e \in Entries : e > hist.base }

-----------------------------------------------------------------------------
(* The run: generate() and the per-entry pipeline addExtension() *)

\* the link a declared folder (index i >= 1) or the cloned root (i = 0) gets
LinkSource(src, folders, i) ==
    IF i = 0 THEN src.clonedDir ELSE PathResolve(src.clonedDir, folders[i])

\* symlink(): dest of an extension link
ExtDest(sourceFolder) ==
    PathResolve(packagesFolder, << PREFIX_PACKAGES_EXTENSIONS \o Basename(sourceFolder) >>)

\* pluginsSymlink(): dest of a plugin link
PluginDest(sourceFolder) == PathResolve(pluginsFolder, << Basename(sourceFolder) >>)

\* a mutant of ExtCalls: an empty list is taken for no list, and the cloned
\* root is linked
ExtCallsRootWhenEmpty(src) ==
    IF src.hasExtensions /\ src.extensions # <<>>
    THEN { <<"ext", i>> : i \in 1..Len(src.extensions) }
    ELSE { <<"ext", 0>> }

\* the ensureSymlink calls symlink() starts: one per declared folder when the
\* list is there (`if (source.extensions)`: an empty list is there too), one
\* for the cloned root otherwise
ExtCalls(src) ==
    IF src.hasExtensions THEN { <<"ext", i>> : i \in 1..Len(src.extensions) }
    ELSE { <<"ext", 0>> }

\* the ensureSymlink calls pluginsSymlink() starts
PluginCalls(src) ==
    IF src.hasPlugins THEN { <<"plugin", i>> : i \in 1..Len(src.plugins) }
    ELSE { <<"plugin", 0>> }

CallSource(src, c) ==
    LinkSource(src, IF c[1] = "ext" THEN src.extensions ELSE src.plugins, c[2])

CallDest(src, c) ==
    IF c[1] = "ext" THEN ExtDest(CallSource(src, c)) ELSE PluginDest(CallSource(src, c))

\* fs.ensureSymlink(src, dest) that succeeds: a dest that exists is left as it is
EnsureSymlink(links, srcpath, dstpath) ==
    IF dstpath \in DOMAIN links THEN links ELSE (dstpath :> srcpath) @@ links

\* a mutant of OnEntryRejected: the rejection of an entry is swallowed
OnEntryRejectedSwallowed(g) == g

\* Promise.all rejects as soon as one entry's callback rejects, and generate()
\* with it
OnEntryRejected(g) == "rejected"

\* a mutant of EntryRejected: the rejection of one entry cancels the others
EntryRejectedCancelsAll(p, e) ==
    [x \in DOMAIN p |-> IF x = e THEN "failed"
                        ELSE IF p[x] \in {"failed", "done"} THEN p[x] ELSE "cancelled"]

\* a mutant of EntryRejected: the rejection is swallowed and the callback
\* goes on from where it was
EntryRejectedSwallowed(p, e) == p

\* an await of entry e's callback throws: that callback ends there; the
\* callbacks of the other entries are where they were
EntryRejected(p, e) == [p EXCEPT ![e] = "failed"]

\* history: a step is appended to an entry's log
Logged(h, e, step) == [h EXCEPT !.steps[e] = Append(@, step)]

\* config paths the command line may give ("undefined": the option is absent)
ConfigPaths == { "undefined", "conf/ok.yml", "conf/none.yml" }
\* config files that exist
ExistingConfigs == { "conf/ok.yml" }

\* hist.config when no call of readConfigurationAndGenerate is under way
NoConfig == [configPath |-> "", downloaded |-> FALSE, error |-> ""]

\* `if (configPath)`: undefined and the empty string are falsy
ConfigGiven(configPath) == configPath \notin { "undefined", "" }

\* a mutant of ConfigObtained: generate is called whatever happened before
ConfigObtainedAlways(configPath, up) == TRUE

\* readConfigurationAndGenerate up to the call of generate: a given path has
\* to exist, the default list has to be downloaded (up: the network answers)
ConfigObtained(configPath, up) ==
    IF ConfigGiven(configPath) THEN configPath \in ExistingConfigs ELSE up

\* readConfigurationAndGenerate(configPath, dev): throws CliError, rejects
\* with axios' error, or calls generate
ReadConfigurationAndGenerate(configPath, up) ==
    /\ gpc = "read"
    /\ gpc' = IF ConfigObtained(configPath, up) THEN "start" ELSE "aborted"
    /\ hist' = [hist EXCEPT !.config =
                  [ configPath |-> configPath,
                    downloaded |-> ~ConfigGiven(configPath) /\ up,
                    error |-> IF ConfigObtained(configPath, up) THEN ""
                              ELSE IF ConfigGiven(configPath)
                                   THEN "Config file does not exists"
                                   ELSE "network error" ]]
    /\ UNCHANGED <<isDevMode, sources, pc, pending, linkAcc, extensions,
                   sourceLocationAliases, globalDevDependencies, symlinks,
                   manifests, assemblyObj, assemblyDisk, inflight,
                   yarnWorkspaces, tsRefs, rootRefs, asmRefs, call, browserVars>>

\* generate(): readFile/load of the yaml, then initGlobalDependencies()
InitGlobalDependencies ==
    /\ gpc = "start"
    /\ gpc' = "deps"
    /\ globalDevDependencies' =
         LET devDependencies == manifests[rootFolder].devDependencies
         IN [k \in DOMAIN devDependencies \cup DOMAIN globalDevDependencies |->
               IF k \in DOMAIN devDependencies THEN devDependencies[k]
               ELSE globalDevDependencies[k]]
    /\ hist' = [hist EXCEPT !.config = NoConfig]
    /\ UNCHANGED <<isDevMode, sources, pc, pending, linkAcc, extensions,
                   sourceLocationAliases, symlinks, manifests, assemblyObj,
                   assemblyDisk, inflight, yarnWorkspaces, tsRefs, rootRefs,
                   asmRefs, call, browserVars>>

\* a mutant of Dispatched: clone() never takes the local-path branch
DispatchedNoShortCircuit(src) ==
    LET ref == IF isDevMode THEN DEV_BRANCH ELSE src.checkoutTo
        loc == IF Truthy(sourceLocationAliases, src.source)
               THEN sourceLocationAliases[src.source] ELSE src.source
    IN [src EXCEPT !.checkoutTo = ref, !.source = loc]

\* a mutant of Dispatched: the declared ref is kept in dev mode
DispatchedKeepRef(src) ==
    LET loc == IF Truthy(sourceLocationAliases, src.source)
               THEN sourceLocationAliases[src.source] ELSE src.source
        s1 == [src EXCEPT !.source = loc]
    IN IF loc \in ExistingDirs
       THEN [s1 EXCEPT !.hasClonedDir = TRUE, !.clonedDir = loc]
       ELSE s1

\* the synchronous head of one entry's callback: the dev-mode ref, the alias,
\* and clone() up to its first await
Dispatched(src) ==
    LET ref == IF isDevMode THEN DEV_BRANCH ELSE src.checkoutTo
        loc == IF Truthy(sourceLocationAliases, src.source)
               THEN sourceLocationAliases[src.source] ELSE src.source
        s1 == [src EXCEPT !.checkoutTo = ref, !.source = loc]
    IN IF loc \in ExistingDirs
       THEN [s1 EXCEPT !.hasClonedDir = TRUE, !.clonedDir = loc]
       ELSE s1

\* generate(): sources.map(...) starts every entry's callback
Fanout ==
    /\ gpc = "deps"
    /\ gpc' = "fanout"
    /\ sources' = [e \in Entries |->
                      IF e \in Current THEN Dispatched(sources[e]) ELSE sources[e]]
    /\ pc' = [e \in Entries |->
                 IF e \notin Current THEN pc[e]
                 ELSE IF sources'[e].hasClonedDir THEN "cloned" ELSE "clone"]
    /\ hist' = [hist EXCEPT
                  !.steps = [e \in Entries |->
                    IF e \notin Current THEN hist.steps[e]
                    ELSE IF sources'[e].hasClonedDir THEN <<"clone">> ELSE <<>>],
                  !.fetched = @ \cup
                     { <<e, sources'[e].source, sources'[e].checkoutTo>> :
                          e \in { x \in Current : ~sources'[x].hasClonedDir } }]
    /\ UNCHANGED <<isDevMode, pending, linkAcc, extensions, sourceLocationAliases,
                   globalDevDependencies, symlinks, manifests, assemblyObj,
                   assemblyDisk, inflight, yarnWorkspaces, tsRefs, rootRefs,
                   asmRefs, call, browserVars>>

\* Repository.getRepositoryName and the directory Repository.clone answers
ClonedDirOf(source) == cheTheiaFolder \o << Basename(source) >>

\* clone(): Repository.clone resolves
CloneDone(e) ==
    /\ pc[e] = "clone"
    /\ sources[e].source \in ReachableRemotes
    /\ sources' = [sources EXCEPT ![e].hasClonedDir = TRUE,
                                  ![e].clonedDir = ClonedDirOf(sources[e].source)]
    /\ pc' = [pc EXCEPT ![e] = "cloned"]
    /\ hist' = Logged(hist, e, "clone")
    /\ UNCHANGED <<gpc, isDevMode, pending, linkAcc, extensions,
                   sourceLocationAliases, globalDevDependencies, symlinks,
                   manifests, assemblyObj, assemblyDisk, inflight,
                   yarnWorkspaces, tsRefs, rootRefs, asmRefs, call, browserVars>>

\* a mutant of CloneRejected: the directory of the failed clone is recorded
CloneRejectedPartial(src) ==
    [src EXCEPT !.hasClonedDir = TRUE, !.clonedDir = ClonedDirOf(src.source)]

\* clone(): the await of Repository.clone throws, `extension.clonedDir =` is
\* never reached
CloneRejected(src) == src

\* clone(): Repository.clone rejects (the repository cannot be reached)
CloneFail(e) ==
    /\ pc[e] = "clone"
    /\ sources[e].source \notin ReachableRemotes
    /\ sources' = [sources EXCEPT ![e] = CloneRejected(@)]
    /\ pc' = EntryRejected(pc, e)
    /\ gpc' = OnEntryRejected(gpc)
    /\ UNCHANGED <<isDevMode, pending, linkAcc, extensions,
                   sourceLocationAliases, globalDevDependencies, symlinks,
                   manifests, assemblyObj, assemblyDisk, inflight,
                   yarnWorkspaces, tsRefs, rootRefs, asmRefs, hist, call, browserVars>>

\* symlink(): the ensureSymlink calls are started (clone() has resolved)
SymlinkStart(e) ==
    /\ pc[e] = "cloned"
    /\ linkAcc' = [linkAcc EXCEPT ![e] = <<>>]
    /\ pending' = [pending EXCEPT ![e] = ExtCalls(sources[e])]
    /\ IF ExtCalls(sources[e]) = {}
       THEN /\ sources' = [sources EXCEPT ![e].hasExtLinks = TRUE,
                                          ![e].extSymbolicLinks = <<>>]
            /\ pc' = [pc EXCEPT ![e] = "update"]
            /\ hist' = Logged(hist, e, "symlink")
       ELSE /\ pc' = [pc EXCEPT ![e] = "symlink"]
            /\ UNCHANGED <<sources, hist>>
    /\ UNCHANGED <<gpc, isDevMode, extensions, sourceLocationAliases,
                   globalDevDependencies, symlinks, manifests, assemblyObj,
                   assemblyDisk, inflight, yarnWorkspaces, tsRefs, rootRefs,
                   asmRefs, call, browserVars>>

\* symlink(): one ensureSymlink resolves and its dest is pushed; after the
\* last one the list is recorded on the entry. (The calls of an entry whose
\* callback has rejected still complete, with nobody waiting for them.)
ExtLinkDone(e, c) ==
    /\ c \in pending[e] /\ c[1] = "ext"
    /\ symlinks' = EnsureSymlink(symlinks, CallSource(sources[e], c), CallDest(sources[e], c))
    /\ pending' = [pending EXCEPT ![e] = @ \ {c}]
    /\ linkAcc' = [linkAcc EXCEPT ![e] = Append(@, CallDest(sources[e], c))]
    /\ IF pending'[e] = {} /\ pc[e] = "symlink"
       THEN /\ sources' = [sources EXCEPT ![e].hasExtLinks = TRUE,
                                          ![e].extSymbolicLinks = linkAcc'[e]]
            /\ pc' = [pc EXCEPT ![e] = "update"]
            /\ hist' = Logged(hist, e, "symlink")
       ELSE UNCHANGED <<sources, pc, hist>>
    /\ UNCHANGED <<gpc, isDevMode, extensions, sourceLocationAliases,
                   globalDevDependencies, manifests, assemblyObj, assemblyDisk,
                   inflight, yarnWorkspaces, tsRefs, rootRefs, asmRefs, call, browserVars>>

\* symlink() / pluginsSymlink(): one ensureSymlink rejects because its dest has
\* been created meanwhile (EEXIST); the entry's callback rejects
LinkFail(e, c) ==
    /\ c \in pending[e]
    /\ pc[e] \in {"symlink", "plugins"}
    /\ CallDest(sources[e], c) \in DOMAIN symlinks
    /\ pending' = [pending EXCEPT ![e] = @ \ {c}]
    /\ pc' = EntryRejected(pc, e)
    /\ gpc' = OnEntryRejected(gpc)
    /\ UNCHANGED <<isDevMode, sources, linkAcc, extensions, sourceLocationAliases,
                   globalDevDependencies, symlinks, manifests, assemblyObj,
                   assemblyDisk, inflight, yarnWorkspaces, tsRefs, rootRefs,
                   asmRefs, hist, call, browserVars>>

\* updateDependencies(extension) resolves: every linked package.json rewritten
UpdateDependenciesDone(e) ==
    /\ pc[e] = "update"
    /\ manifests' = updateDependencies(sources[e].extSymbolicLinks, TRUE)
    /\ pc' = [pc EXCEPT ![e] = "insert"]
    /\ hist' = Logged(hist, e, "rewrite")
    /\ UNCHANGED <<gpc, isDevMode, sources, pending, linkAcc, extensions,
                   sourceLocationAliases, globalDevDependencies, symlinks,
                   assemblyObj, assemblyDisk, inflight, yarnWorkspaces, tsRefs,
                   rootRefs, asmRefs, call, browserVars>>

\* a mutant of InsertAll: only the first linked package is inserted
InsertAllFirstOnly(dependencies, links) ==
    IF links = <<>> THEN dependencies
    ELSE LET m == manifests[Realpath(Head(links))]
         IN (m.name :> m.version) @@ dependencies

RECURSIVE InsertAll(_, _)
\* insertExtensionIntoAssembly: dependencies[name] = version, link after link
InsertAll(dependencies, links) ==
    IF links = <<>> THEN dependencies
    ELSE LET m == manifests[Realpath(Head(links))]
         IN InsertAll((m.name :> m.version) @@ dependencies, Tail(links))

\* require(assemblyPackageJsonPath): the module cache answers the one object
AssemblyJson == assemblyObj

\* insertExtensionIntoAssembly up to its await: the shared object is changed
\* and its JSON text is handed to fs.writeFile
InsertExtensionIntoAssembly(e) ==
    /\ pc[e] = "insert"
    /\ assemblyObj' = InsertAll(AssemblyJson, sources[e].extSymbolicLinks)
    /\ inflight' = [inflight EXCEPT ![e] = assemblyObj']
    /\ pc' = [pc EXCEPT ![e] = "write"]
    /\ hist' = Logged(hist, e, "insert")
    /\ UNCHANGED <<gpc, isDevMode, sources, pending, linkAcc, extensions,
                   sourceLocationAliases, globalDevDependencies, symlinks,
                   manifests, assemblyDisk, yarnWorkspaces, tsRefs, rootRefs,
                   asmRefs, call, browserVars>>

\* the end of an entry's callback: addExtension has resolved,
\* this.extensions.push(extension)
Pushed(exts, e) == Append(exts, e)

\* insertExtensionIntoAssembly's fs.writeFile lands (the writes of different
\* entries land in any order), then pluginsSymlink() starts its calls
AssemblyWriteDone(e) ==
    /\ pc[e] = "write"
    /\ assemblyDisk' = inflight[e]
    /\ linkAcc' = [linkAcc EXCEPT ![e] = <<>>]
    /\ pending' = [pending EXCEPT ![e] = PluginCalls(sources[e])]
    /\ IF PluginCalls(sources[e]) = {}
       THEN /\ sources' = [sources EXCEPT ![e].hasPluginLinks = TRUE,
                                          ![e].pluginSymbolicLinks = <<>>]
            /\ extensions' = Pushed(extensions, e)
            /\ pc' = [pc EXCEPT ![e] = "done"]
            /\ hist' = Logged(Logged(Logged(hist, e, "persist"), e, "plugins"), e, "push")
       ELSE /\ pc' = [pc EXCEPT ![e] = "plugins"]
            /\ hist' = Logged(hist, e, "persist")
            /\ UNCHANGED <<sources, extensions>>
    /\ UNCHANGED <<gpc, isDevMode, sourceLocationAliases, globalDevDependencies,
                   symlinks, manifests, assemblyObj, inflight, yarnWorkspaces,
                   tsRefs, rootRefs, asmRefs, call, browserVars>>

\* pluginsSymlink(): one ensureSymlink resolves; after the last one the list
\* is recorded, addExtension resolves and the entry is pushed
PluginLinkDone(e, c) ==
    /\ c \in pending[e] /\ c[1] = "plugin"
    /\ symlinks' = EnsureSymlink(symlinks, CallSource(sources[e], c), CallDest(sources[e], c))
    /\ pending' = [pending EXCEPT ![e] = @ \ {c}]
    /\ linkAcc' = [linkAcc EXCEPT ![e] = Append(@, CallDest(sources[e], c))]
    /\ IF pending'[e] = {} /\ pc[e] = "plugins"
       THEN /\ sources' = [sources EXCEPT ![e].hasPluginLinks = TRUE,
                                          ![e].pluginSymbolicLinks = linkAcc'[e]]
            /\ extensions' = Pushed(extensions, e)
            /\ pc' = [pc EXCEPT ![e] = "done"]
            /\ hist' = Logged(Logged(hist, e, "plugins"), e, "push")
       ELSE UNCHANGED <<sources, extensions, pc, hist>>
    /\ UNCHANGED <<gpc, isDevMode, sourceLocationAliases, globalDevDependencies,
                   manifests, assemblyObj, assemblyDisk, inflight,
                   yarnWorkspaces, tsRefs, rootRefs, asmRefs, call, browserVars>>

-----------------------------------------------------------------------------
(* After the join: the workspace index and the build references *)

RECURSIVE CommonPrefix(_, _)
\* the number of leading segments two paths share
CommonPrefix(a, b) ==
    IF a = <<>> \/ b = <<>> \/ Head(a) # Head(b) THEN 0
    ELSE 1 + CommonPrefix(Tail(a), Tail(b))

\* path.relative(from, to): '..' out of what is left of from, then into to
PathRelative(from, to) ==
    LET n == CommonPrefix(from, to)
    IN [i \in 1..(Len(from) - n) |-> ".."] \o SubSeq(to, n + 1, Len(to))

\* `yarn workspaces info`: the packages under the packages folder, by name
\* (the root manifest's workspaces are the entries of that folder)
YarnWorkspacesInfo ==
    LET locs == { l \in {CoreDir} \cup DOMAIN symlinks :
                    /\ SubSeq(l, 1, Len(packagesFolder)) = packagesFolder
                    /\ Len(l) = Len(packagesFolder) + 1
                    /\ Realpath(l) \in DOMAIN manifests }
        names == { manifests[Realpath(l)].name : l \in locs }
    IN [n \in names |-> CHOOSE l \in locs : manifests[Realpath(l)].name = n]

\* a mutant of AllEntriesSettled: the first entry to finish ends the wait
AnyEntrySettled == \E e \in Current : pc[e] = "done"

\* `await Promise.all(sources.map(...))` resolves: every callback has resolved
AllEntriesSettled == \A e \in Current : pc[e] = "done"

\* getYarnWorkspaces: the map built from yarn's answer (hasData: the answer
\* has a `data` member)
ParseYarnWorkspaces(hasData) == IF hasData THEN YarnWorkspacesInfo ELSE EmptyMap

\* a mutant of NoWorkspaces: an empty index is let through
NoWorkspacesIgnored(index) == FALSE

\* getYarnWorkspaces: `yarnWorkspaces.size === 0`
NoWorkspaces(index) == DOMAIN index = {}

\* generate(): getYarnWorkspaces(), then updateTypescriptReferences is started
\* for every entry of this.extensions
GetYarnWorkspaces(hasData) ==
    /\ gpc = "fanout"
    /\ AllEntriesSettled
    /\ IF NoWorkspaces(ParseYarnWorkspaces(hasData))
       THEN /\ gpc' = "rejected"
            /\ UNCHANGED <<yarnWorkspaces, pc, hist>>
       ELSE /\ gpc' = "tsrefs"
            /\ yarnWorkspaces' = [built |-> TRUE, index |-> ParseYarnWorkspaces(hasData)]
            /\ pc' = [e \in Entries |-> IF e \in Range(extensions) THEN "refs" ELSE pc[e]]
            /\ hist' = [hist EXCEPT !.phases = Append(@, "index")]
    /\ UNCHANGED <<isDevMode, sources, pending, linkAcc, extensions,
                   sourceLocationAliases, globalDevDependencies, symlinks,
                   manifests, assemblyObj, assemblyDisk, inflight, tsRefs,
                   rootRefs, asmRefs, call, browserVars>>

\* updateTypescriptReferencesFor(symbolicLink, keys, index): the references of
\* the package's tsconfig afterwards
UpdateTypescriptReferencesFor(refs, symbolicLink, keys, index) ==
    refs \cup { PathRelative(symbolicLink, index[k]) : k \in keys \cap DOMAIN index }

\* a mutant of ReferenceKeys: the names of the devDependencies are passed too
ReferenceKeysWithDev(extensionPackage) ==
    KeysOf(extensionPackage.hasDependencies, extensionPackage.dependencies)
    \cup KeysOf(extensionPackage.hasDevDependencies, extensionPackage.devDependencies)

\* updateTypescriptReferences: keysDependencies of the package read
ReferenceKeys(extensionPackage) ==
    KeysOf(extensionPackage.hasDependencies, extensionPackage.dependencies)

\* updateTypescriptReferences(extension, yarnWorkspaces) resolves
UpdateTypescriptReferencesDone(e) ==
    /\ gpc = "tsrefs"
    /\ pc[e] = "refs"
    /\ tsRefs' = [d \in DOMAIN tsRefs |->
         LET links == { l \in Range(sources[e].extSymbolicLinks) : Realpath(l) = d }
         IN IF links = {} THEN tsRefs[d]
            ELSE UNION { UpdateTypescriptReferencesFor(tsRefs[d], l,
                            ReferenceKeys(manifests[d]),
                            yarnWorkspaces.index) : l \in links }]
    /\ pc' = [pc EXCEPT ![e] = "finished"]
    /\ hist' = [Logged(hist, e, "refs") EXCEPT !.refCalls = @ \cup
                  { [ e |-> e, symbolicLink |-> l,
                      keys |-> ReferenceKeys(manifests[Realpath(l)]),
                      index |-> yarnWorkspaces.index ] :
                      l \in Range(sources[e].extSymbolicLinks) }]
    /\ UNCHANGED <<gpc, isDevMode, sources, pending, linkAcc, extensions,
                   sourceLocationAliases, globalDevDependencies, symlinks,
                   manifests, assemblyObj, assemblyDisk, inflight,
                   yarnWorkspaces, rootRefs, asmRefs, call, browserVars>>

\* the references a config at `folder` gets for the workspace packages
WorkspaceReferences(folder) ==
    { PathRelative(folder, YarnWorkspacesInfo[n]) : n \in DOMAIN YarnWorkspacesInfo }

RECURSIVE AppendAll(_, _)
\* a mutant of AppendMissing: every path is appended
AppendAll(refs, paths) ==
    IF paths = {} THEN refs
    ELSE LET p == CHOOSE q \in paths : TRUE
         IN AppendAll(Append(refs, p), paths \ {p})

RECURSIVE AppendMissing(_, _)
\* a references list after an additive update: the paths it lacks are appended
AppendMissing(refs, paths) ==
    IF paths = {} THEN refs
    ELSE LET p == CHOOSE q \in paths : TRUE
         IN AppendMissing(IF p \in Range(refs) THEN refs ELSE Append(refs, p),
                          paths \ {p})

\* generate(): the reference updates have all resolved; updateRootTsConfigFile
UpdateRootTsConfigFile ==
    /\ gpc = "tsrefs"
    /\ \A e \in Entries : pc[e] # "refs"
    /\ rootRefs' = AppendMissing(rootRefs, WorkspaceReferences(rootFolder))
    /\ gpc' = "assemblyTs"
    /\ hist' = [hist EXCEPT !.phases = Append(@, "rootTs")]
    /\ UNCHANGED <<isDevMode, sources, pc, pending, linkAcc, extensions,
                   sourceLocationAliases, globalDevDependencies, symlinks,
                   manifests, assemblyObj, assemblyDisk, inflight,
                   yarnWorkspaces, tsRefs, asmRefs, call, browserVars>>

\* generate(): updateAssemblyTsConfigFile, and generate() resolves
UpdateAssemblyTsConfigFile ==
    /\ gpc = "assemblyTs"
    /\ asmRefs' = AppendMissing(asmRefs, WorkspaceReferences(assemblyFolder))
    /\ gpc' = "done"
    /\ hist' = [hist EXCEPT !.phases = Append(@, "assemblyTs")]
    /\ UNCHANGED <<isDevMode, sources, pc, pending, linkAcc, extensions,
                   sourceLocationAliases, globalDevDependencies, symlinks,
                   manifests, assemblyObj, assemblyDisk, inflight,
                   yarnWorkspaces, tsRefs, rootRefs, call, browserVars>>

-----------------------------------------------------------------------------
(* The specification of a run *)

\* references the two configs hold before the run
InitialRootRefs == << <<"packages", "core">>, <<"generator">> >>
InitialAsmRefs == << <<"..", "packages", "core">> >>

\* a new InitSources, and readConfigurationAndGenerate() called; sources is
\* what the configuration's yaml declares. (The assembly
\* package.json is first required before anything writes it, so the cached
\* object starts as the file's content.)
Init ==
    /\ gpc = "read"
    /\ isDevMode \in BOOLEAN
    /\ sources \in SourceLists
    /\ pc = [e \in DOMAIN sources |-> "idle"]
    /\ pending = [e \in DOMAIN sources |-> {}]
    /\ linkAcc = [e \in DOMAIN sources |-> <<>>]
    /\ extensions = <<>>
    /\ sourceLocationAliases \in AliasChoices
    /\ globalDevDependencies = EmptyMap
    /\ symlinks = EmptyMap
    /\ manifests = InitialManifests
    /\ assemblyObj = InitialAssembly
    /\ assemblyDisk = InitialAssembly
    /\ inflight = [e \in DOMAIN sources |-> EmptyMap]
    /\ yarnWorkspaces = [built |-> FALSE, index |-> EmptyMap]
    /\ tsRefs = [d \in DOMAIN InitialManifests |-> {}]
    /\ rootRefs = InitialRootRefs
    /\ asmRefs = InitialAsmRefs
    /\ hist = [ steps |-> [e \in DOMAIN sources |-> <<>>], phases |-> <<>>,
                fetched |-> {}, declared |-> sources,
                config |-> NoConfig, base |-> 0, calls |-> 1,
                refCalls |-> {} ]
    /\ call = [op |-> "none"]
    /\ BrowserIdle

Next ==
    \/ \E configPath \in ConfigPaths, up \in BOOLEAN :
          ReadConfigurationAndGenerate(configPath, up)
    \/ InitGlobalDependencies
    \/ Fanout
    \/ \E e \in Entries : CloneDone(e)
    \/ \E e \in Entries : CloneFail(e)
    \/ \E e \in Entries : SymlinkStart(e)
    \/ \E e \in Entries : \E c \in pending[e] : ExtLinkDone(e, c)
    \/ \E e \in Entries : \E c \in pending[e] : LinkFail(e, c)
    \/ \E e \in Entries : UpdateDependenciesDone(e)
    \/ \E e \in Entries : InsertExtensionIntoAssembly(e)
    \/ \E e \in Entries : AssemblyWriteDone(e)
    \/ \E e \in Entries : \E c \in pending[e] : PluginLinkDone(e, c)
    \/ \E hasData \in BOOLEAN : GetYarnWorkspaces(hasData)
    \/ \E e \in Entries : UpdateTypescriptReferencesDone(e)
    \/ UpdateRootTsConfigFile
    \/ UpdateAssemblyTsConfigFile

Spec == Init /\ [][Next]_vars

-----------------------------------------------------------------------------
(* generate() called again on the same instance *)

\* the most calls of generate() one instance gets
MaxCalls == 2

\* the sources lists of these runs: one entry each
SingleLists == { << Declared[i] >> : i \in 1..Len(Declared) }

\* the devDependencies the root package.json may have by the next call:
\* as before, or rimraf dropped and lodash pinned
RootDevChoices == { RootDevDependencies, (<<"lodash">> :> "4.0.0") }

\* a call of generate() has resolved; the configuration and the root manifest
\* are edited and readConfigurationAndGenerate is called again on the same
\* instance. Its fields (this.extensions, the two maps) are as the earlier
\* call left them, the entries of the new yaml are new objects, and the
\* entries this.extensions holds stay alive.
GenerateAgain(list, devDependencies) ==
    /\ gpc = "done"
    /\ hist.calls < MaxCalls
    /\ gpc' = "read"
    /\ sources' = sources \o list
    /\ pc' = pc \o [i \in DOMAIN list |-> "idle"]
    /\ pending' = pending \o [i \in DOMAIN list |-> {}]
    /\ linkAcc' = linkAcc \o [i \in DOMAIN list |-> <<>>]
    /\ inflight' = inflight \o [i \in DOMAIN list |-> EmptyMap]
    /\ manifests' = [manifests EXCEPT ![rootFolder].devDependencies = devDependencies]
    /\ yarnWorkspaces' = [built |-> FALSE, index |-> EmptyMap]
    /\ hist' = [hist EXCEPT !.base = Len(sources), !.calls = @ + 1,
                            !.steps = @ \o [i \in DOMAIN list |-> <<>>],
                            !.phases = <<>>,
                            !.declared = @ \o list,
                            !.config = NoConfig]
    /\ UNCHANGED <<isDevMode, extensions, sourceLocationAliases,
                   globalDevDependencies, symlinks, assemblyObj, assemblyDisk,
                   tsRefs, rootRefs, asmRefs, call, browserVars>>

\* a new instance, used for a sources list of one entry
InitTwice ==
    /\ Init
    /\ sources \in SingleLists
    /\ ~isDevMode
    /\ sourceLocationAliases = EmptyMap

NextTwice ==
    \/ Next
    \/ \E list \in SingleLists, devDependencies \in RootDevChoices :
          GenerateAgain(list, devDependencies)

SpecTwice == InitTwice /\ [][NextTwice]_vars

-----------------------------------------------------------------------------
(* Runs in which the rewrite or the write of the aggregate manifest fails
   (specification SpecFail) *)

\* the links of a list at the places of a set, in the order of the list
Pick(links, places) ==
    LET F[i \in 0..Len(links)] ==
            IF i = 0 THEN <<>>
            ELSE IF i \in places THEN Append(F[i - 1], links[i]) ELSE F[i - 1]
    IN F[Len(links)]

\* updateDependencies(extension) rejects: the rewrite of one linked package
\* throws (its package.json cannot be required or written); the rewrites of
\* the packages at `written` have got to the disk, and addExtension ends at
\* its await
UpdateDependenciesFail(e, written) ==
    /\ pc[e] = "update"
    /\ written \subseteq 1..Len(sources[e].extSymbolicLinks)
    /\ written # 1..Len(sources[e].extSymbolicLinks)
    /\ manifests' = updateDependencies(Pick(sources[e].extSymbolicLinks, written), TRUE)
    /\ pc' = EntryRejected(pc, e)
    /\ gpc' = OnEntryRejected(gpc)
    /\ hist' = Logged(hist, e, "rewriteFailed")
    /\ UNCHANGED <<isDevMode, sources, pending, linkAcc, extensions,
                   sourceLocationAliases, globalDevDependencies, symlinks,
                   assemblyObj, assemblyDisk, inflight, yarnWorkspaces, tsRefs,
                   rootRefs, asmRefs, call, browserVars>>

\* insertExtensionIntoAssembly rejects: fs.writeFile of the aggregate manifest
\* fails, the file is as it was (the shared object keeps the insertions), and
\* addExtension ends at its await
AssemblyWriteFail(e) ==
    /\ pc[e] = "write"
    /\ pc' = EntryRejected(pc, e)
    /\ gpc' = OnEntryRejected(gpc)
    /\ hist' = Logged(hist, e, "insertFailed")
    /\ UNCHANGED <<isDevMode, sources, pending, linkAcc, extensions,
                   sourceLocationAliases, globalDevDependencies, symlinks,
                   manifests, assemblyObj, assemblyDisk, inflight,
                   yarnWorkspaces, tsRefs, rootRefs, asmRefs, call, browserVars>>

InitFail ==
    /\ Init
    /\ ~isDevMode
    /\ sourceLocationAliases = EmptyMap

NextFail ==
    \/ Next
    \/ \E e \in Entries :
          \E written \in SUBSET (1..Len(sources[e].extSymbolicLinks)) :
              UpdateDependenciesFail(e, written)
    \/ \E e \in Entries : AssemblyWriteFail(e)

SpecFail == InitFail /\ [][NextFail]_vars

-----------------------------------------------------------------------------
(* Runs over entries whose extensions or plugins list is there and empty
   (specification SpecLists) *)

\* the entries the lists are drawn from: `extensions: []` with and without
\* `plugins: []`, and entries of Declared with folders, without lists, and
\* from the two repositories
DeclaredWithEmptyLists == <<
    Declare(LocalA, "", TRUE, <<>>, TRUE, <<>>),
    Declare(LocalB, "", TRUE, <<>>, FALSE, <<>>),
    Declared[1],
    Declared[3],
    Declared[5],
    Declared[6] >>

ListsWithEmptyLists ==
    { [i \in DOMAIN f |-> DeclaredWithEmptyLists[f[i]]] :
        f \in { g \in UNION { [1..n -> 1..Len(DeclaredWithEmptyLists)] : n \in 1..MaxEntries } :
                  \A i \in 1..(Len(g) - 1) : g[i] <= g[i + 1] } }

InitLists ==
    /\ gpc = "read"
    /\ isDevMode = FALSE
    /\ sources \in ListsWithEmptyLists
    /\ pc = [e \in DOMAIN sources |-> "idle"]
    /\ pending = [e \in DOMAIN sources |-> {}]
    /\ linkAcc = [e \in DOMAIN sources |-> <<>>]
    /\ extensions = <<>>
    /\ sourceLocationAliases = EmptyMap
    /\ globalDevDependencies = EmptyMap
    /\ symlinks = EmptyMap
    /\ manifests = InitialManifests
    /\ assemblyObj = InitialAssembly
    /\ assemblyDisk = InitialAssembly
    /\ inflight = [e \in DOMAIN sources |-> EmptyMap]
    /\ yarnWorkspaces = [built |-> FALSE, index |-> EmptyMap]
    /\ tsRefs = [d \in DOMAIN InitialManifests |-> {}]
    /\ rootRefs = InitialRootRefs
    /\ asmRefs = InitialAsmRefs
    /\ hist = [ steps |-> [e \in DOMAIN sources |-> <<>>], phases |-> <<>>,
                fetched |-> {}, declared |-> sources,
                config |-> NoConfig, base |-> 0, calls |-> 1,
                refCalls |-> {} ]
    /\ call = [op |-> "none"]
    /\ BrowserIdle

SpecLists == InitLists /\ [][Next]_vars

-----------------------------------------------------------------------------
(* Direct calls of updateDependency and updateDependencies, as the tests make *)

\* the mappings over at most n of the names, with values in vals
MapsUpTo(names, vals, n) ==
    UNION { [S -> vals] : S \in { T \in SUBSET names : Cardinality(T) <= n } }

\* versions a package declares for its dependencies
DeclaredVersions == { "0.0.1", "4.0.0" }

\* the package.json documents updateDependencies is called on
ManifestInputs ==
    { Manifest(<<"@che-theia", "sample">>, "0.1.2", hd, IF hd THEN d ELSE EmptyMap,
               hv, IF hv THEN v ELSE EmptyMap) :
        hd \in BOOLEAN, hv \in BOOLEAN,
        d \in MapsUpTo(DepNames, DeclaredVersions, MaxDeps),
        v \in MapsUpTo(DepNames, DeclaredVersions, MaxDeps) }

\* the directory of the package the calls work on (no link: the directory itself)
TestDir == <<"tests", "extension">>

\* a new InitSources whose dev-dependency set has been loaded from some root
\* manifest, and one package on disk
InitDeps ==
    /\ gpc = "start"
    /\ isDevMode = FALSE
    /\ sources = << [ Declare(TestDir, "", FALSE, <<>>, FALSE, <<>>)
                      EXCEPT !.hasExtLinks = TRUE, !.extSymbolicLinks = <<TestDir>> ] >>
    /\ pc = [e \in DOMAIN sources |-> "idle"]
    /\ pending = [e \in DOMAIN sources |-> {}]
    /\ linkAcc = [e \in DOMAIN sources |-> <<>>]
    /\ extensions = <<>>
    /\ sourceLocationAliases = EmptyMap
    /\ globalDevDependencies \in MapsUpTo(DepNames, Versions, MaxGlobal)
    /\ symlinks = EmptyMap
    /\ manifests \in { (TestDir :> m) : m \in ManifestInputs }
    /\ assemblyObj = InitialAssembly
    /\ assemblyDisk = InitialAssembly
    /\ inflight = [e \in DOMAIN sources |-> EmptyMap]
    /\ yarnWorkspaces = [built |-> FALSE, index |-> EmptyMap]
    /\ tsRefs = [d \in {TestDir} |-> {}]
    /\ rootRefs = InitialRootRefs
    /\ asmRefs = InitialAsmRefs
    /\ hist = [ steps |-> [e \in DOMAIN sources |-> <<>>], phases |-> <<>>,
                fetched |-> {}, declared |-> sources,
                config |-> NoConfig, base |-> 0, calls |-> 1,
                refCalls |-> {} ]
    /\ call = [op |-> "none"]
    /\ BrowserIdle

\* updateDependency(dependencyKey, dependencyValue) is called
CallUpdateDependency(dependencyKey, dependencyValue) ==
    /\ call' = [ op |-> "updateDependency", key |-> dependencyKey,
                 value |-> dependencyValue,
                 result |-> updateDependency(dependencyKey, dependencyValue) ]
    /\ UNCHANGED <<runVars, globalDevDependencies, manifests, browserVars>>

\* updateDependencies(extension, rewrite) is called and resolves
CallUpdateDependencies(rewrite) ==
    /\ manifests' = updateDependencies(sources[1].extSymbolicLinks, rewrite)
    /\ call' = [ op |-> "updateDependencies", rewrite |-> rewrite,
                 before |-> manifests[TestDir],
                 result |-> RewritePackage(manifests[TestDir]) ]
    /\ UNCHANGED <<runVars, globalDevDependencies, browserVars>>

NextDeps ==
    \/ \E k \in DepNames, v \in DeclaredVersions : CallUpdateDependency(k, v)
    \/ \E rewrite \in BOOLEAN : CallUpdateDependencies(rewrite)

SpecDeps == InitDeps /\ [][NextDeps]_vars

-----------------------------------------------------------------------------
(* Direct calls of initSourceLocationAliases. An override string is the      *)
(* sequence of its characters: 'a=a' is <<"a", "=", "a">>.                   *)

\* the longest override string
MaxOverrideLen == 3
\* the longest list of override strings
MaxOverrides == 2

\* the characters of the override strings
OverrideChars == { "a", "=" }

\* the override strings
OverrideStrings == UNION { [1..n -> OverrideChars] : n \in 0..MaxOverrideLen }

\* the values of the `alias` argument: undefined, or a list of override strings
AliasArguments ==
    { [given |-> FALSE, list |-> <<>>] }
    \cup { [given |-> TRUE, list |-> l] :
             l \in UNION { [1..n -> OverrideStrings] : n \in 0..MaxOverrides } }

RECURSIVE IndexOfFrom(_, _, _)
\* the first position >= i (counted from 0) where ch stands in str, or -1
IndexOfFrom(str, ch, i) ==
    IF i >= Len(str) THEN -1
    ELSE IF str[i + 1] = ch THEN i
    ELSE IndexOfFrom(str, ch, i + 1)

\* String.prototype.indexOf(ch)
IndexOf(str, ch) == IndexOfFrom(str, ch, 0)

\* how String.prototype.substring sees an index: clamped into 0..length
Clamp(i, len) == IF i < 0 THEN 0 ELSE IF i > len THEN len ELSE i

\* String.prototype.substring(start, end): both indexes are clamped, and
\* swapped when start > end
Substring(str, start, end) ==
    LET a == Clamp(start, Len(str))
        b == Clamp(end, Len(str))
    IN IF a <= b THEN SubSeq(str, a + 1, b) ELSE SubSeq(str, b + 1, a)

\* Map.prototype.set
MapSet(map, key, value) ==
    [k \in DOMAIN map \cup {key} |-> IF k = key THEN value ELSE map[k]]

\* the body of the forEach callback: `if (element.indexOf('='))` holds for
\* every number but 0
AliasElement(map, element) ==
    IF IndexOf(element, "=") # 0
    THEN MapSet(map,
                Substring(element, 0, IndexOf(element, "=")),
                Substring(element, IndexOf(element, "=") + 1, Len(element)))
    ELSE map

RECURSIVE AliasForEach(_, _)
\* alias.forEach(...), element after element
AliasForEach(map, list) ==
    IF list = <<>> THEN map
    ELSE AliasForEach(AliasElement(map, Head(list)), Tail(list))

\* InitSources.initSourceLocationAliases
initSourceLocationAliases(map, alias) ==
    IF alias.given THEN AliasForEach(map, alias.list) ELSE map

\* a new InitSources, its alias map empty
\* the generator before any call on it
GeneratorIdle ==
    /\ gpc = "read"
    /\ isDevMode = FALSE
    /\ sources = <<>>
    /\ pc = <<>>
    /\ pending = <<>>
    /\ linkAcc = <<>>
    /\ extensions = <<>>
    /\ sourceLocationAliases = EmptyMap
    /\ globalDevDependencies = EmptyMap
    /\ symlinks = EmptyMap
    /\ manifests = InitialManifests
    /\ assemblyObj = InitialAssembly
    /\ assemblyDisk = InitialAssembly
    /\ inflight = <<>>
    /\ yarnWorkspaces = [built |-> FALSE, index |-> EmptyMap]
    /\ tsRefs = [d \in DOMAIN InitialManifests |-> {}]
    /\ rootRefs = InitialRootRefs
    /\ asmRefs = InitialAsmRefs
    /\ hist = [ steps |-> <<>>, phases |-> <<>>, fetched |-> {},
                declared |-> <<>>, config |-> NoConfig, base |-> 0, calls |-> 1,
                refCalls |-> {} ]
    /\ call = [op |-> "none"]

InitAlias == GeneratorIdle /\ BrowserIdle

\* initSourceLocationAliases(alias) is called, once, on the new instance
CallInitSourceLocationAliases(alias) ==
    /\ call.op = "none"
    /\ sourceLocationAliases' = initSourceLocationAliases(sourceLocationAliases, alias)
    /\ call' = [ op |-> "initSourceLocationAliases", alias |-> alias,
                 before |-> sourceLocationAliases ]
    /\ UNCHANGED <<gpc, isDevMode, sources, pc, pending, linkAcc, extensions,
                   globalDevDependencies, symlinks, manifests, assemblyObj,
                   assemblyDisk, inflight, yarnWorkspaces, tsRefs, rootRefs,
                   asmRefs, hist, browserVars>>

NextAlias == \E alias \in AliasArguments : CallInitSourceLocationAliases(alias)

SpecAlias == InitAlias /\ [][NextAlias]_vars

-----------------------------------------------------------------------------
(* The preferences provider of the preference-sync extension:               *)
(* PreferencesProvider.getPluginsProperties (specification SpecPrefs).      *)
(* An object is the sequence of its <<key, value>> pairs in key order, a    *)
(* JSON text the sequence of its tokens.                                    *)

MaxStatuses == 2

\* a token of a JSON text: a brace, a comma, a literal, or a "key":"value" member
Tok(t) == [t |-> t, k |-> "", v |-> ""]
Member(k, v) == [t |-> "member", k |-> k, v |-> v]

\* obj[k] = v on an object: an own key keeps its place
ObjSet(obj, k, v) ==
    IF \E i \in 1..Len(obj) : obj[i][1] = k
    THEN [i \in 1..Len(obj) |-> IF obj[i][1] = k THEN <<k, v>> ELSE obj[i]]
    ELSE Append(obj, <<k, v>>)

\* the object of the members among the tokens, a later member over an earlier
MembersOf(tokens) ==
    LET F[i \in 0..Len(tokens)] ==
            IF i = 0 THEN <<>>
            ELSE IF tokens[i].t = "member" THEN ObjSet(F[i - 1], tokens[i].k, tokens[i].v)
            ELSE F[i - 1]
    IN F[Len(tokens)]

\* member (',' member)*, or nothing
MemberList(tokens) ==
    \/ tokens = <<>>
    \/ /\ Len(tokens) % 2 = 1
       /\ \A i \in 1..Len(tokens) :
             tokens[i].t = (IF i % 2 = 1 THEN "member" ELSE ",")

\* JSON.parse(text): an object, the null, a number, or a SyntaxError
JsonParse(text) ==
    IF text = << Tok("null") >> THEN [kind |-> "null", obj |-> <<>>]
    ELSE IF text = << Tok("1") >> THEN [kind |-> "number", obj |-> <<>>]
    ELSE IF /\ Len(text) >= 2
            /\ text[1].t = "{"
            /\ text[Len(text)].t = "}"
            /\ MemberList(SubSeq(text, 2, Len(text) - 1))
         THEN [kind |-> "object", obj |-> MembersOf(text)]
    ELSE [kind |-> "SyntaxError", obj |-> <<>>]

SIDECAR_PREFERENCES == "CHE_THEIA_SIDECAR_PREFERENCES"

\* componentStatus.env.find(env => env.name === 'CHE_THEIA_SIDECAR_PREFERENCES'):
\* the place of the first one, 0 when there is none
FindPreferencesEnv(env) ==
    IF \E i \in 1..Len(env) : env[i].name = SIDECAR_PREFERENCES
    THEN CHOOSE i \in 1..Len(env) :
            /\ env[i].name = SIDECAR_PREFERENCES
            /\ \A j \in 1..(i - 1) : env[j].name # SIDECAR_PREFERENCES
    ELSE 0

\* a mutant of ComponentStatusPreferences: of a text that does not parse,
\* the members that could be read are kept
ComponentStatusPreferencesLenient(componentStatus) ==
    IF componentStatus.defined /\ componentStatus.hasEnv
          /\ FindPreferencesEnv(componentStatus.env) # 0
    THEN LET value == componentStatus.env[FindPreferencesEnv(componentStatus.env)].value
             parsed == JsonParse(value)
         IN IF parsed.kind = "SyntaxError"
            THEN [kind |-> "object", obj |-> MembersOf(value), logged |-> TRUE]
            ELSE [kind |-> parsed.kind, obj |-> parsed.obj, logged |-> FALSE]
    ELSE [kind |-> "object", obj |-> <<>>, logged |-> FALSE]

\* the callback of componentStatuses.map: what JSON.parse returns for the
\* variable's value; {} and a console.error when it throws; {} without the
\* variable
ComponentStatusPreferences(componentStatus) ==
    IF componentStatus.defined /\ componentStatus.hasEnv
          /\ FindPreferencesEnv(componentStatus.env) # 0
    THEN LET parsed == JsonParse(componentStatus.env[FindPreferencesEnv(componentStatus.env)].value)
         IN IF parsed.kind = "SyntaxError"
            THEN [kind |-> "object", obj |-> <<>>, logged |-> TRUE]
            ELSE [kind |-> parsed.kind, obj |-> parsed.obj, logged |-> FALSE]
    ELSE [kind |-> "object", obj |-> <<>>, logged |-> FALSE]

\* reduce(...): the [key, value] pairs of the objects of a list, one object
\* after the other
Tuples(objects) ==
    LET F[i \in 0..Len(objects)] ==
            IF i = 0 THEN <<>> ELSE F[i - 1] \o objects[i]
    IN F[Len(objects)]

\* component.plugin.preferences || {} of a plugin component, {} of another
DevfilePluginPreferences(component) ==
    IF component.hasPlugin /\ component.hasPreferences THEN component.preferences ELSE <<>>

\* (component.attributes || {})['che-theia.eclipse.org/vscode-preferences'] || {}
PreferencesAttributes(component) ==
    IF component.hasAttributes /\ component.hasVscodePreferences
    THEN component.vscodePreferences ELSE <<>>

\* getPluginsProperties(): what it returns or that it throws, and the names
\* of the components console.error was called for
getPluginsProperties(devfile, componentStatuses) ==
    IF ~devfile.hasComponents
    THEN [threw |-> TRUE, tuples |-> <<>>, errors |-> <<>>]
    ELSE LET components == devfile.components
             devfilePluginPreferences ==
                 [i \in 1..Len(components) |-> DevfilePluginPreferences(components[i])]
             preferencesAttributes ==
                 [i \in 1..Len(components) |-> PreferencesAttributes(components[i])]
             componentStatusPreferences ==
                 [i \in 1..Len(componentStatuses) |->
                     ComponentStatusPreferences(componentStatuses[i])]
             errors ==
                 LET F[i \in 0..Len(componentStatuses)] ==
                         IF i = 0 THEN <<>>
                         ELSE IF componentStatusPreferences[i].logged
                              THEN Append(F[i - 1], componentStatuses[i].name)
                              ELSE F[i - 1]
                 IN F[Len(componentStatuses)]
         IN IF \E i \in 1..Len(components) : preferencesAttributes[i] # <<>>
            THEN [threw |-> FALSE, tuples |-> Tuples(preferencesAttributes),
                  errors |-> <<>>]
            ELSE IF \E i \in 1..Len(componentStatuses) :
                        componentStatusPreferences[i].kind = "null"
            THEN [threw |-> TRUE, tuples |-> <<>>, errors |-> errors]
            ELSE [threw |-> FALSE,
                  tuples |-> Tuples(devfilePluginPreferences)
                             \o Tuples([i \in 1..Len(componentStatuses) |->
                                           componentStatusPreferences[i].obj]),
                  errors |-> errors]

\* the values of the variable that parse
ValidTexts ==
    { << Tok("{"), Tok("}") >>,
      << Tok("{"), Member("a", "1"), Tok("}") >>,
      << Tok("{"), Member("a", "1"), Tok(","), Member("b", "2"), Tok("}") >>,
      << Tok("{"), Member("a", "1"), Tok(","), Member("a", "2"), Tok("}") >>,
      << Tok("null") >>,
      << Tok("1") >> }

\* the values of the variable that do not: the empty text, an object that is
\* not closed, a trailing comma, members without braces
InvalidTexts ==
    { <<>>,
      << Tok("{"), Member("a", "1") >>,
      << Tok("{"), Member("b", "2"), Tok(","), Tok("}") >>,
      << Member("a", "1"), Tok("}") >> }

EnvLists ==
    { <<>>, << [name |-> "PATH", value |-> << Tok("{"), Member("p", "0"), Tok("}") >>] >> }
    \cup { << [name |-> SIDECAR_PREFERENCES, value |-> t] >> : t \in ValidTexts \cup InvalidTexts }
    \cup { << [name |-> "PATH", value |-> <<>>],
             [name |-> SIDECAR_PREFERENCES, value |-> t],
             [name |-> SIDECAR_PREFERENCES, value |-> << Tok("{"), Member("z", "9"), Tok("}") >>] >> :
             t \in { << Tok("{"), Member("a", "1") >>, << Tok("{"), Member("b", "2"), Tok("}") >> } }

\* the component statuses the devfile service answers: the i-th is named ci
StatusNames == << "c1", "c2", "c3" >>

StatusAt(i) ==
    { [defined |-> FALSE, hasEnv |-> FALSE, name |-> StatusNames[i], env |-> <<>>],
      [defined |-> TRUE, hasEnv |-> FALSE, name |-> StatusNames[i], env |-> <<>>] }
    \cup { [defined |-> TRUE, hasEnv |-> TRUE, name |-> StatusNames[i], env |-> env] :
             env \in EnvLists }

StatusLists ==
    UNION { { f \in [1..n -> UNION { StatusAt(i) : i \in 1..n }] :
                \A i \in 1..n : f[i] \in StatusAt(i) } : n \in 0..MaxStatuses }

Component(hasPlugin, hasPreferences, preferences, hasVscodePreferences, vscodePreferences) ==
    [ hasPlugin |-> hasPlugin, hasPreferences |-> hasPreferences,
      preferences |-> preferences, hasAttributes |-> hasVscodePreferences,
      hasVscodePreferences |-> hasVscodePreferences,
      vscodePreferences |-> vscodePreferences ]

Devfiles ==
    { [hasComponents |-> FALSE, components |-> <<>>],
      [hasComponents |-> TRUE, components |-> <<>>],
      [hasComponents |-> TRUE, components |->
          << Component(TRUE, TRUE, << <<"java.home", "/jdk">> >>, FALSE, <<>>) >>],
      [hasComponents |-> TRUE, components |->
          << Component(FALSE, FALSE, <<>>, FALSE, <<>>),
             Component(TRUE, FALSE, <<>>, FALSE, <<>>),
             Component(TRUE, TRUE, << <<"a", "0">>, <<"go.path", "/go">> >>, FALSE, <<>>) >>],
      [hasComponents |-> TRUE, components |->
          << Component(TRUE, TRUE, << <<"java.home", "/jdk">> >>, TRUE, <<>>) >>],
      [hasComponents |-> TRUE, components |->
          << Component(TRUE, TRUE, << <<"java.home", "/jdk">> >>, FALSE, <<>>),
             Component(FALSE, FALSE, <<>>, TRUE, << <<"editor.tabSize", "2">> >>) >>] }

InitPrefs == InitAlias

\* getPluginsProperties() is called with the devfile and the component
\* statuses the devfile service answers
CallGetPluginsProperties(devfile, componentStatuses) ==
    /\ call.op = "none"
    /\ call' = [ op |-> "getPluginsProperties", devfile |-> devfile,
                 componentStatuses |-> componentStatuses,
                 result |-> getPluginsProperties(devfile, componentStatuses) ]
    /\ UNCHANGED <<gpc, isDevMode, sources, pc, pending, linkAcc, extensions,
                   sourceLocationAliases, globalDevDependencies, symlinks,
                   manifests, assemblyObj, assemblyDisk, inflight,
                   yarnWorkspaces, tsRefs, rootRefs, asmRefs, hist, browserVars>>

NextPrefs ==
    \E devfile \in Devfiles, componentStatuses \in StatusLists :
        CallGetPluginsProperties(devfile, componentStatuses)

SpecPrefs == InitPrefs /\ [][NextPrefs]_vars

-----------------------------------------------------------------------------
(* PreferencesProvider.setPluginProperties and setPreferenceValue           *)
(* (specification SpecProvider). A value of a tuple is a JSON text, a       *)
(* stored value what JSON.parse made of it or the text itself.              *)

MaxProps == 3

\* the value JSON.parse returned, as a preference value
Parsed(parsed) == [kind |-> parsed.kind, obj |-> parsed.obj, raw |-> <<>>]

\* the string itself, as a preference value
Raw(value) == [kind |-> "string", obj |-> <<>>, raw |-> value]

\* preferenceService.has(key)
Has(preferences, key) == key \in DOMAIN preferences

\* a mutant of setPreferenceValue: set is called whether the key has a value
\* or not
setPreferenceValueUnguarded(preferences, key, value) ==
    << [key |-> key, value |-> value, scope |-> "Workspace"] >>

\* setPreferenceValue(key, value) up to its await: the set calls it makes
setPreferenceValue(preferences, key, value) ==
    IF ~Has(preferences, key)
    THEN << [key |-> key, value |-> value, scope |-> "Workspace"] >>
    ELSE <<>>

\* one turn of the loop of setPluginProperties: the value setPreferenceValue
\* is called with, and whether the catch block was entered
TupleValue(value) ==
    IF JsonParse(value).kind = "SyntaxError"
    THEN [value |-> Raw(value), warned |-> TRUE]
    ELSE [value |-> Parsed(JsonParse(value)), warned |-> FALSE]

\* the loop of setPluginProperties over props: the set calls made, in order
\* (no write lands while the loop runs: it does not await)
SetCalls(preferences, props) ==
    LET F[i \in 0..Len(props)] ==
            IF i = 0 THEN <<>>
            ELSE F[i - 1] \o setPreferenceValue(preferences, props[i][1],
                                                 TupleValue(props[i][2]).value)
    IN F[Len(props)]

\* the keys and the values of the tuples
PropertyKeys == {"a", "b"}
PropertyTexts ==
    { << Tok("1") >>,
      << Tok("{"), Member("a", "1"), Tok("}") >>,
      << Tok("{"), Member("a", "1") >>,
      << Tok("/jdk") >> }

PropertyLists ==
    UNION { [1..n -> PropertyKeys \X PropertyTexts] : n \in 0..MaxProps }

\* what the preference service holds when the provider starts
StoredPreferences ==
    { EmptyMap, ("a" :> Raw(<< Tok("/old") >>)),
      ("a" :> Raw(<< Tok("/old") >>)) @@ ("b" :> Parsed(JsonParse(<< Tok("1") >>))) }

InitProvider ==
    /\ GeneratorIdle
    /\ ThemeIdle
    /\ WidgetIdle
    /\ workspacePreferences \in StoredPreferences
    /\ pendingSets = <<>>
    /\ setLog = <<>>

\* setPluginProperties(props), after its await of the workspace roots: per
\* tuple JSON.parse, the warning when it throws, has(key) and the set call
SetPluginProperties(props) ==
    /\ call.op = "none"
    /\ call' = [ op |-> "setPluginProperties", props |-> props,
                 before |-> workspacePreferences ]
    /\ pendingSets' = pendingSets \o SetCalls(workspacePreferences, props)
    /\ setLog' = [i \in 1..Len(props) |->
                    [ key |-> props[i][1],
                      has |-> Has(workspacePreferences, props[i][1]),
                      warned |-> TupleValue(props[i][2]).warned,
                      sets |-> setPreferenceValue(workspacePreferences, props[i][1],
                                                  TupleValue(props[i][2]).value) ]]
    /\ UNCHANGED <<generatorVars, themeVars, widgetVars, workspacePreferences>>

\* the write of the oldest set call lands: the key has the value
PreferenceSetDone ==
    /\ pendingSets # <<>>
    /\ workspacePreferences' =
          (Head(pendingSets).key :> Head(pendingSets).value) @@ workspacePreferences
    /\ pendingSets' = Tail(pendingSets)
    /\ UNCHANGED <<generatorVars, call, themeVars, widgetVars, setLog>>

NextProvider ==
    \/ \E props \in PropertyLists : SetPluginProperties(props)
    \/ PreferenceSetDone

SpecProvider == InitProvider /\ [][NextProvider]_vars

-----------------------------------------------------------------------------
(* TheiaThemePreferenceSynchronizer (specification SpecTheme). The two      *)
(* handlers run inside the call that fires their event; preferenceService   *)
(* .set is asynchronous, its change event comes when the write lands, and   *)
(* neither service fires an event for a value that is the current one.      *)

MaxChanges == 3

Themes == {"dark", "light", "hc"}

COLOR_THEME == "workbench.appearance.colorTheme"

\* the synchronizer and the two services, as one value the handlers work on
Synchronizer ==
    [ uiChange |-> uiChange, preferenceChange |-> preferenceChange,
      activeTheme |-> activeTheme, prefEvents |-> prefEvents,
      calls |-> themeLog.calls ]

\* the handler of ThemeService.onDidColorThemeChange, for a change to theme id
\* in the course of change number cause
OnDidColorThemeChange(st, id, cause) ==
    IF st.preferenceChange
    THEN [st EXCEPT !.preferenceChange = FALSE]
    ELSE [st EXCEPT !.uiChange = TRUE,
                    !.prefEvents = Append(@, [value |-> id, cause |-> cause]),
                    !.calls = Append(@, [op |-> "set", name |-> COLOR_THEME,
                                         value |-> id, scope |-> "User",
                                         cause |-> cause])]

\* ThemeService.setCurrentTheme(id): the current theme is left alone, another
\* one is activated and the theme-change event fired
SetCurrentTheme(st, id, cause) ==
    IF id = st.activeTheme THEN st
    ELSE OnDidColorThemeChange([st EXCEPT !.activeTheme = id], id, cause)

\* the handler of preferenceService.onPreferenceChanged, for a change of
\* 'workbench.appearance.colorTheme' to newValue
OnPreferenceChanged(st, newValue, cause) ==
    IF st.uiChange
    THEN [st EXCEPT !.uiChange = FALSE]
    ELSE SetCurrentTheme(
             [st EXCEPT !.preferenceChange = TRUE,
                        !.calls = Append(@, [op |-> "setCurrentTheme",
                                             name |-> COLOR_THEME, value |-> newValue,
                                             scope |-> "", cause |-> cause])],
             newValue, cause)

\* the variables take the values of the synchronizer st
Becomes(st, log) ==
    /\ uiChange' = st.uiChange
    /\ preferenceChange' = st.preferenceChange
    /\ activeTheme' = st.activeTheme
    /\ prefEvents' = st.prefEvents
    /\ themeLog' = [log EXCEPT !.calls = st.calls]

InitTheme ==
    /\ GeneratorIdle
    /\ ProviderIdle
    /\ WidgetIdle
    /\ uiChange = FALSE
    /\ preferenceChange = FALSE
    /\ activeTheme \in Themes
    /\ themePreference \in Themes
    /\ prefEvents = <<>>
    /\ themeLog = [configured |-> FALSE, changes |-> <<>>, calls |-> <<>>]

\* configure(), after initialize(): the theme of the preference is made the
\* current one (change number 0)
Configure ==
    /\ ~themeLog.configured
    /\ Becomes(SetCurrentTheme(Synchronizer, themePreference, 0),
               [themeLog EXCEPT !.configured = TRUE])
    /\ UNCHANGED <<generatorVars, call, themePreference, providerVars, widgetVars>>

\* the user picks another theme in the UI
UiThemeChange(id) ==
    /\ themeLog.configured
    /\ Len(themeLog.changes) < MaxChanges
    /\ id # activeTheme
    /\ Becomes(OnDidColorThemeChange([Synchronizer EXCEPT !.activeTheme = id], id,
                                      Len(themeLog.changes) + 1),
               [themeLog EXCEPT !.changes = Append(@, "theme")])
    /\ UNCHANGED <<generatorVars, call, themePreference, providerVars, widgetVars>>

\* the preference gets another value from elsewhere (the settings are edited)
PreferenceChange(value) ==
    /\ themeLog.configured
    /\ Len(themeLog.changes) < MaxChanges
    /\ value # themePreference
    /\ themePreference' = value
    /\ Becomes(OnPreferenceChanged(Synchronizer, value, Len(themeLog.changes) + 1),
               [themeLog EXCEPT !.changes = Append(@, "preference")])
    /\ UNCHANGED <<generatorVars, call, providerVars, widgetVars>>

\* the write of the oldest preferenceService.set call lands: nothing more for
\* the value the preference has, the value and the change event otherwise
PreferenceWriteLands ==
    /\ prefEvents # <<>>
    /\ LET write == Head(prefEvents)
           st == [Synchronizer EXCEPT !.prefEvents = Tail(prefEvents)]
       IN IF write.value = themePreference
          THEN /\ Becomes(st, themeLog)
               /\ UNCHANGED themePreference
          ELSE /\ themePreference' = write.value
               /\ Becomes(OnPreferenceChanged(st, write.value, write.cause), themeLog)
    /\ UNCHANGED <<generatorVars, call, providerVars, widgetVars>>

NextTheme ==
    \/ Configure
    \/ \E id \in Themes : UiThemeChange(id)
    \/ \E value \in Themes : PreferenceChange(value)
    \/ PreferenceWriteLands

SpecTheme == InitTheme /\ [][NextTheme]_vars

-----------------------------------------------------------------------------
(* RemoteTerminalWidget (specification SpecWidget). An async method is a    *)
(* task that stops at each await; the terminal server, the connection of    *)
(* its proxy, the attach socket and the terminal watcher are the            *)
(* environment. A terminal id is a positive number, -1 is the id the        *)
(* server's check answers for a terminal it does not have.                  *)

MaxTasks == 2

\* the ids the watcher's exit and error events carry
EventIds == {1, 2}

\* IBaseTerminalServer.validateId
ValidateId(id) == id # -1

\* the widget and its environment, as one value the methods work on
Widget ==
    [ termServer |-> termServer, terminalId |-> terminalId, socket |-> socket,
      wait |-> waitForRemoteConnection, output |-> closeOutputConnectionDisposable,
      processGone |-> processGone, disposed |-> widgetDisposed, tasks |-> tasks,
      server |-> server, log |-> widgetLog ]

\* the variables take the values of the widget w
WidgetBecomes(w) ==
    /\ termServer' = w.termServer
    /\ terminalId' = w.terminalId
    /\ socket' = w.socket
    /\ waitForRemoteConnection' = w.wait
    /\ closeOutputConnectionDisposable' = w.output
    /\ processGone' = w.processGone
    /\ widgetDisposed' = w.disposed
    /\ tasks' = w.tasks
    /\ server' = w.server
    /\ widgetLog' = w.log
    /\ UNCHANGED <<generatorVars, call, themeVars, providerVars, options>>

\* resolveRemoteConnection(): the Deferred the field holds is resolved with
\* the socket (no effect on one that is resolved); by: who called
ResolveRemoteConnection(w, by) ==
    IF w.wait.resolved THEN w
    ELSE [w EXCEPT !.wait.resolved = TRUE,
                   !.log.resolved = (w.wait.gen :> by) @@ @]

\* a mutant of ConnectSocket: a socket is created at every call
ConnectSocketAlways(w, by) ==
    [w EXCEPT !.socket = "connecting", !.log.sockets = @ + 1]

\* connectSocket(id): with a socket, resolveRemoteConnection and return;
\* without, createWebSocket and the three handlers
ConnectSocket(w, by) ==
    IF w.socket # "none"
    THEN ResolveRemoteConnection(w, by)
    ELSE [w EXCEPT !.socket = "connecting", !.log.sockets = @ + 1]

\* start() from the assignment of _terminalId to its await of
\* waitForRemoteConnection.promise: connectTerminalProcess runs up to the end
\* of connectSocket, and the task waits for the Deferred the field holds now
StartAfterId(w, t, id) ==
    LET connected == ConnectSocket([w EXCEPT !.terminalId = id], w.tasks[t].origin)
    IN [connected EXCEPT !.tasks[t] = [origin |-> @.origin, arg |-> 0, pc |-> "wait",
                                       gen |-> connected.wait.gen]]

\* start(id), line `this._terminalId = ...`: createTerminal() without an id,
\* attachTerminal(id) with one; both await the server
StartTerminal(w, t) ==
    [w EXCEPT !.tasks[t].pc = IF w.tasks[t].arg = 0 THEN "create" ELSE "attach"]

\* the call of task t has ended: it returned or threw
Ended(w, t, how) ==
    [w EXCEPT !.tasks[t] = [origin |-> @.origin, arg |-> 0, pc |-> how, gen |-> 0]]

\* a mutant of ResizeTerminalProcess: processGone is not looked at
ResizeTerminalProcessAlways(w, known) ==
    IF ~ValidateId(w.terminalId) /\ ~known THEN w
    ELSE IF w.termServer
         THEN [w EXCEPT !.log.resize = IF w.processGone THEN "gone" ELSE "alive"]
    ELSE w

\* resizeTerminalProcess(); known: terminalService.getById(this.id) finds the
\* widget. The log keeps whether the process was gone at the last request
\* sent to the server
ResizeTerminalProcess(w, known) ==
    IF w.processGone THEN w
    ELSE IF ~ValidateId(w.terminalId) /\ ~known THEN w
    ELSE IF w.termServer
         THEN [w EXCEPT !.log.resize = IF w.processGone THEN "gone" ELSE "alive"]
    ELSE w

\* super.dispose(): everything pushed to toDispose is disposed, the
\* output connection with it if it has been assigned
Dispose(w) ==
    [w EXCEPT !.disposed = TRUE,
              !.output = IF @ = "assigned" THEN "disposed" ELSE @,
              !.socket = IF w.output = "assigned" THEN "closed" ELSE @]

\* the handler of onTerminalExecExit / onTerminalExecError for an event with
\* the widget's terminal id; `undefined.dispose()` is a TypeError
OnTerminalExec(w, kind, closeWidgetOnExitOrError) ==
    LET gone == [w EXCEPT !.processGone = TRUE]
    IN IF closeWidgetOnExitOrError THEN Dispose(gone)
       ELSE IF gone.output = "undefined"
            THEN [gone EXCEPT !.log.typeError = TRUE]
       ELSE [gone EXCEPT !.output = "disposed", !.socket = "closed"]

\* a mutant of ReconnectTerminalProcess: start is called whatever the check
\* has answered
ReconnectTerminalProcessAlways(w, t, valid) ==
    StartTerminal([w EXCEPT !.log.reconnects = (w.tasks[t].gen :> valid) @@ @,
                            !.tasks[t].arg = w.terminalId, !.tasks[t].gen = 0], t)

\* reconnectTerminalProcess() after its await of termServer.check; valid:
\* the check has answered a valid id (a failed check counts as -1). The log
\* keeps the answer under the Deferred the handler installed
ReconnectTerminalProcess(w, t, valid) ==
    LET l == [w EXCEPT !.log.reconnects = (w.tasks[t].gen :> valid) @@ @]
    IN IF valid
       THEN StartTerminal([l EXCEPT !.tasks[t].arg = w.terminalId, !.tasks[t].gen = 0], t)
       ELSE Ended(l, t, "returned")

InitWidget ==
    /\ GeneratorIdle
    /\ ThemeIdle
    /\ ProviderIdle
    /\ options \in [closeWidgetOnExitOrError : BOOLEAN, kind : {"user", "task"}]
    /\ termServer = FALSE
    /\ terminalId = -1
    /\ socket = "none"
    /\ waitForRemoteConnection = [gen |-> 0, resolved |-> FALSE]
    /\ closeOutputConnectionDisposable = "undefined"
    /\ processGone = FALSE
    /\ widgetDisposed = FALSE
    /\ tasks = <<>>
    /\ \E created \in {0, 1} :
          server = [connection |-> "open", closeHandlers |-> 0, openHandlers |-> 0,
                    terminals |-> 1..created, created |-> created]
    /\ widgetLog = [sockets |-> 0, resize |-> "none", typeError |-> FALSE,
                    resolved |-> EmptyMap, reconnects |-> EmptyMap]

\* start(id) is called (arg 0: without an id) and runs to its first await:
\* of the proxy creator without a termServer, of the server otherwise
Start(arg) ==
    /\ Len(tasks) < MaxTasks
    /\ ~widgetDisposed
    /\ \A t \in 1..Len(tasks) : tasks[t].origin # "user"
    /\ LET t == Len(tasks) + 1
           w == [Widget EXCEPT !.tasks = Append(@, [origin |-> "user", arg |-> arg,
                                                    pc |-> "proxy", gen |-> 0])]
       IN WidgetBecomes(IF termServer THEN StartTerminal(w, t) ELSE w)

\* termProxyCreatorProvider() resolves: termServer is set, the handler of
\* onDidCloseConnection registered, and start goes on to the terminal
ProxyDone(t) ==
    /\ tasks[t].pc = "proxy"
    /\ WidgetBecomes(StartTerminal([Widget EXCEPT !.termServer = TRUE,
                                                  !.server.closeHandlers = @ + 1], t))

\* termProxyCreatorProvider() rejects: start throws
ProxyFail(t) ==
    /\ tasks[t].pc = "proxy"
    /\ WidgetBecomes(Ended(Widget, t, "threw"))

\* termServer.create answers: a valid id is the widget's terminal id, and
\* start goes on to the socket; createTerminal throws otherwise
CreateReply(t, ok) ==
    /\ tasks[t].pc = "create"
    /\ IF ok
       THEN LET id == server.created + 1
            IN WidgetBecomes(StartAfterId(
                   [Widget EXCEPT !.server.created = id,
                                  !.server.terminals = @ \cup {id}], t, id))
       ELSE WidgetBecomes(Ended(Widget, t, "threw"))

\* termServer.check of attachTerminal answers or fails: a valid id (the
\* server has the terminal) is attached; for -1 a user terminal is created
\* anew, another kind goes on with -1
AttachReply(t, valid) ==
    /\ tasks[t].pc = "attach"
    /\ valid => tasks[t].arg \in server.terminals
    /\ IF valid THEN WidgetBecomes(StartAfterId(Widget, t, tasks[t].arg))
       ELSE IF options.kind # "user" THEN WidgetBecomes(StartAfterId(Widget, t, -1))
       ELSE WidgetBecomes([Widget EXCEPT !.tasks[t].pc = "create"])

\* the Deferred start waits for has been resolved: the resize is scheduled,
\* start returns the id or throws for an invalid one
WaitDone(t) ==
    /\ tasks[t].pc = "wait"
    /\ tasks[t].gen \in DOMAIN widgetLog.resolved
    /\ WidgetBecomes([Widget EXCEPT !.tasks[t].gen = 0,
                                    !.tasks[t].pc =
                         IF ValidateId(terminalId) THEN "timer" ELSE "timerThrew"])

\* the setTimeout of start fires: resizeTerminalProcess()
ResizeTimer(t, known) ==
    /\ tasks[t].pc \in {"timer", "timerThrew"}
    /\ WidgetBecomes(ResizeTerminalProcess(
           Ended(Widget, t, IF tasks[t].pc = "timer" THEN "returned" ELSE "threw"),
           known))

\* the widget is resized: resizeTerminalProcess()
WidgetResized(known) ==
    /\ ~widgetDisposed
    /\ WidgetBecomes(ResizeTerminalProcess(Widget, known))

\* the connection of the server proxy closes: every handler registered with
\* onDidCloseConnection registers one with onDidOpenConnection
ConnectionClosed ==
    /\ termServer /\ ~widgetDisposed
    /\ server.connection = "open"
    /\ Len(tasks) + server.closeHandlers <= MaxTasks
    /\ WidgetBecomes([Widget EXCEPT !.server.connection = "closed",
                                    !.server.openHandlers = @ + server.closeHandlers])

\* the connection opens again: every handler registered with
\* onDidOpenConnection installs a new Deferred and calls
\* reconnectTerminalProcess, which awaits the server's check
ConnectionOpened ==
    /\ server.connection = "closed"
    /\ Len(tasks) + server.openHandlers <= MaxTasks
    /\ LET k == server.openHandlers
           gen == waitForRemoteConnection.gen
       IN WidgetBecomes(
            [Widget EXCEPT
               !.server.connection = "open",
               !.server.openHandlers = 0,
               !.wait = IF k = 0 THEN @ ELSE [gen |-> gen + k, resolved |-> FALSE],
               !.tasks = @ \o [i \in 1..k |-> [origin |-> "reconnect", arg |-> 0,
                                                pc |-> "check", gen |-> gen + i]]])

\* the check of reconnectTerminalProcess answers or fails: with a valid id
\* start(this.terminalId) is called, which awaits the check of
\* attachTerminal; otherwise reconnectTerminalProcess returns
ReconnectReply(t, valid) ==
    /\ tasks[t].pc = "check"
    /\ valid => terminalId \in server.terminals
    /\ WidgetBecomes(ReconnectTerminalProcess(Widget, t, valid))

\* socket.onopen: resolveRemoteConnection, and the output connection's
\* disposable is assigned
SocketOpen ==
    /\ socket = "connecting"
    /\ WidgetBecomes([ResolveRemoteConnection(Widget, "onopen")
                         EXCEPT !.socket = "open", !.output = "assigned"])

\* the socket loses its connection; the ReconnectingWebSocket will open again
SocketDrop ==
    /\ socket = "open"
    /\ WidgetBecomes([Widget EXCEPT !.socket = "connecting"])

\* the watcher fires onTerminalExecExit or onTerminalExecError with id; the
\* handler acts for the widget's terminal id only
TerminalExec(kind, id) ==
    /\ id \in 1..server.created
    /\ LET w == [Widget EXCEPT
                   !.server.terminals = IF kind = "exit" THEN @ \ {id} ELSE @]
       IN IF ~widgetDisposed /\ terminalId = id
          THEN WidgetBecomes(OnTerminalExec(w, kind, options.closeWidgetOnExitOrError))
          ELSE WidgetBecomes(w)

NextWidget ==
    \/ \E arg \in {0, 1} : Start(arg)
    \/ \E t \in 1..Len(tasks) : ProxyDone(t)
    \/ \E t \in 1..Len(tasks) : ProxyFail(t)
    \/ \E t \in 1..Len(tasks), ok \in BOOLEAN : CreateReply(t, ok)
    \/ \E t \in 1..Len(tasks), valid \in BOOLEAN : AttachReply(t, valid)
    \/ \E t \in 1..Len(tasks) : WaitDone(t)
    \/ \E t \in 1..Len(tasks), known \in BOOLEAN : ResizeTimer(t, known)
    \/ \E known \in BOOLEAN : WidgetResized(known)
    \/ ConnectionClosed
    \/ ConnectionOpened
    \/ \E t \in 1..Len(tasks), valid \in BOOLEAN : ReconnectReply(t, valid)
    \/ SocketOpen
    \/ SocketDrop
    \/ \E kind \in {"exit", "error"}, id \in EventIds : TerminalExec(kind, id)

SpecWidget == InitWidget /\ [][NextWidget]_vars

-----------------------------------------------------------------------------
(* Properties of a run (specification Spec) *)

\* the package a link path leads to
PackageAt(l) == manifests[Realpath(l)]

\* the steps of a complete per-entry pipeline, in the order the code takes them
FullPipeline == <<"clone", "symlink", "rewrite", "insert", "persist", "plugins", "push">>

\* the place of a step in an entry's log (0: not there)
StepIndex(e, step) ==
    IF step \in Range(hist.steps[e])
    THEN CHOOSE i \in 1..Len(hist.steps[e]) : hist.steps[e][i] = step
    ELSE 0

\* every package an entry links is in rewritten form on disk
Rewritten(e) ==
    \A l \in Range(sources[e].extSymbolicLinks) :
        /\ PackageAt(l).hasDependencies /\ PackageAt(l).hasDevDependencies
        /\ \A k \in DOMAIN PackageAt(l).dependencies :
              PackageAt(l).dependencies[k] = updateDependency(k, PackageAt(l).dependencies[k])
        /\ \A k \in DOMAIN PackageAt(l).devDependencies :
              PackageAt(l).devDependencies[k] = updateDependency(k, PackageAt(l).devDependencies[k])

\* every package an entry links is in the given dependencies mapping
InsertedInto(dependencies, e) ==
    \A l \in Range(sources[e].extSymbolicLinks) :
        /\ PackageAt(l).name \in DOMAIN dependencies
        /\ dependencies[PackageAt(l).name] = PackageAt(l).version

\* C1: once the pipeline of an entry has failed, generate() has rejected and
\* none of the later phases is performed: the workspace index is not built, no
\* reference update has run for any entry, and neither the root nor the
\* assembly reference config has been updated.
C1_FailureStopsLaterPhases ==
    (\E e \in Entries : pc[e] = "failed") =>
        /\ gpc = "rejected"
        /\ ~yarnWorkspaces.built
        /\ hist.phases = <<>>
        /\ \A e \in Entries : StepIndex(e, "refs") = 0
        /\ \A d \in DOMAIN tsRefs : tsRefs[d] = {}
        /\ rootRefs = InitialRootRefs
        /\ asmRefs = InitialAsmRefs

\* C1 witness: one entry has failed while another has run its whole pipeline,
\* and nothing is left to do
C1_Witness ==
    /\ \E e \in Entries : pc[e] = "failed"
    /\ \E e \in Entries : pc[e] = "done"
    /\ gpc = "rejected"
    /\ ~ENABLED Next

\* C2 (as claimed): after a successful run the assembly package.json on disk
\* holds name -> version for every linked extension path of every entry.
C2_AllInsertionsPersisted ==
    gpc = "done" => \A e \in Entries : InsertedInto(assemblyDisk, e)

\* C3: the root-config update phase starts only after every declared entry has
\* completed its whole pipeline and its reference update; while and after the
\* two configs are updated no entry has work left.
C3_JoinBarrier ==
    ("rootTs" \in Range(hist.phases) \/ gpc \in {"assemblyTs", "done"}) =>
        \A e \in Entries :
            /\ pc[e] = "finished"
            /\ pending[e] = {}
            /\ hist.steps[e] = Append(FullPipeline, "refs")

\* C3 witness: the root config has been updated, the assembly config not yet,
\* in a run of two entries
C3_Witness ==
    /\ gpc = "assemblyTs"
    /\ Len(sources) = 2
    /\ \A e \in Entries : pc[e] = "finished"

\* C4: when generate() has resolved, every declared entry has been
\* materialized, linked (extensions and plugins), dependency-rewritten,
\* reference-updated and inserted into the assembly manifest object, each
\* declared entry is in this.extensions exactly once, and both reference
\* configs have been updated.
C4_TerminalSuccess ==
    gpc = "done" =>
        /\ \A e \in Entries :
             /\ sources[e].hasClonedDir
             /\ sources[e].hasExtLinks /\ sources[e].hasPluginLinks
             /\ Rewritten(e)
             /\ InsertedInto(assemblyObj, e)
             /\ hist.steps[e] = Append(FullPipeline, "refs")
             /\ Cardinality({ i \in 1..Len(extensions) : extensions[i] = e }) = 1
        /\ Len(extensions) = Len(sources)
        /\ yarnWorkspaces.built
        /\ hist.phases = <<"index", "rootTs", "assemblyTs">>

\* C4 witness: a run of two entries, one of them with two linked packages,
\* has resolved
C4_Witness ==
    /\ gpc = "done"
    /\ Len(sources) = 2
    /\ \E e \in Entries : Cardinality(Range(sources[e].extSymbolicLinks)) = 2

\* C5 (as claimed): no entry is inserted into the assembly manifest before its
\* build references have been updated.
C5_ReferencesBeforeInsertion ==
    \A e \in Entries : StepIndex(e, "insert") > 0 => StepIndex(e, "refs") > 0

\* C5 (amended): for every entry the reference update comes after its
\* dependency rewrite and after its insertion into the assembly manifest:
\* the order is rewrite, insertion, reference update, and when the references
\* are updated the entry's packages are rewritten on disk and in the manifest
\* object.
C5_ReferencesAfterInsertion ==
    \A e \in Entries :
        /\ StepIndex(e, "insert") > 0 =>
              /\ 0 < StepIndex(e, "rewrite")
              /\ StepIndex(e, "rewrite") < StepIndex(e, "insert")
              /\ StepIndex(e, "refs") = 0 \/ StepIndex(e, "refs") > StepIndex(e, "insert")
        /\ StepIndex(e, "refs") > 0 =>
              /\ 0 < StepIndex(e, "insert")
              /\ Rewritten(e)
              /\ InsertedInto(assemblyObj, e)

\* C5 witness: an entry's references have been updated
C5_Witness ==
    \E e \in Entries :
        /\ StepIndex(e, "refs") > 0
        /\ sources[e].extSymbolicLinks # <<>>

\* C9 (as claimed): an entry that declares pairwise different extension
\* subfolders f1..fn (n >= 1) records, once symlink() is done, n pairwise
\* distinct link paths; the link of fi is at <packagesFolder>/@che-basename(fi)
\* and leads to the subfolder fi of the entry's cloned directory.
C9_OneLinkPerSubfolder ==
    \A e \in Entries :
        LET src == sources[e]
            n == Len(src.extensions)
        IN (/\ src.hasExtLinks /\ src.hasExtensions /\ n >= 1
            /\ \A i, j \in 1..n : i # j => src.extensions[i] # src.extensions[j])
           => /\ Len(src.extSymbolicLinks) = n
              /\ Cardinality(Range(src.extSymbolicLinks)) = n
              /\ \A i \in 1..n :
                   LET sourceFolder == PathResolve(src.clonedDir, src.extensions[i])
                       dest == packagesFolder \o << "@che-" \o Basename(sourceFolder) >>
                   IN /\ dest \in Range(src.extSymbolicLinks)
                      /\ dest \in DOMAIN symlinks
                      /\ symlinks[dest] = sourceFolder

\* C10 (as claimed): an entry that declares no extension subfolders records,
\* once symlink() is done, exactly one extension link, at
\* <packagesFolder>/@che-basename(cloned directory), leading to the root of
\* its cloned directory.
C10_RootLink ==
    \A e \in Entries :
        LET src == sources[e]
            dest == packagesFolder \o << "@che-" \o Basename(src.clonedDir) >>
        IN (src.hasExtLinks /\ ~src.hasExtensions)
           => /\ src.extSymbolicLinks = << dest >>
              /\ dest \in DOMAIN symlinks
              /\ symlinks[dest] = src.clonedDir

-----------------------------------------------------------------------------
(* Properties of the dependency rewriter (specification SpecDeps) *)

\* C6 (as claimed): updateDependency(k, v) answers G[k] if k is a key of the
\* global dev-dependency set G, whatever version string G pins, also when k
\* starts with '@theia/'; otherwise '^' + theiaVersion if k starts with
\* '@theia/'; otherwise v.
C6_RewritePrecedence ==
    call.op = "updateDependency" =>
        call.result =
            IF call.key \in DOMAIN globalDevDependencies
            THEN globalDevDependencies[call.key]
            ELSE IF StartsWithTheia(call.key) THEN "^" \o theiaVersion
                 ELSE call.value

\* the keys of a document other than the two dependency mappings, in order
OtherKeys(m) ==
    SelectSeq(m.order, LAMBDA k : k \notin {"dependencies", "devDependencies"})

\* the fields updateDependencies must leave alone agree in two documents, and
\* so do the names in the two dependency mappings
SameButVersions(b, a) ==
    /\ a.name = b.name /\ a.version = b.version /\ a.license = b.license
    /\ OtherKeys(a) = OtherKeys(b)
    /\ DOMAIN a.dependencies = KeysOf(b.hasDependencies, b.dependencies)
    /\ DOMAIN a.devDependencies = KeysOf(b.hasDevDependencies, b.devDependencies)

\* C7: updateDependencies changes only the 'dependencies' and
\* 'devDependencies' fields of a package manifest: every other field has the
\* value it had, in the object it rewrites and in the file on disk, and the
\* names in the two dependency mappings are the names that were there.
C7_OnlyDependencyFieldsChange ==
    call.op = "updateDependencies" =>
        /\ SameButVersions(call.before, call.result)
        /\ SameButVersions(call.before, manifests[TestDir])

\* C7 witness: a manifest with dependencies of all three rules has been
\* rewritten on disk, and a version has changed
C7_Witness ==
    /\ call.op = "updateDependencies" /\ call.rewrite
    /\ Cardinality(DOMAIN call.before.dependencies) = 2
    /\ manifests[TestDir] = call.result
    /\ call.result.dependencies # call.before.dependencies

\* C8: for a manifest without a 'dependencies' key (or without a
\* 'devDependencies' key) updateDependencies completes and the resulting
\* manifest has the key, with the empty mapping; so has the file when the
\* result is written.
C8_AbsentMappingBecomesEmpty ==
    call.op = "updateDependencies" =>
        /\ ~call.before.hasDependencies =>
              /\ call.result.hasDependencies
              /\ call.result.dependencies = EmptyMap
              /\ "dependencies" \in Range(call.result.order)
              /\ call.rewrite => /\ manifests[TestDir].hasDependencies
                                 /\ manifests[TestDir].dependencies = EmptyMap
        /\ ~call.before.hasDevDependencies =>
              /\ call.result.hasDevDependencies
              /\ call.result.devDependencies = EmptyMap
              /\ "devDependencies" \in Range(call.result.order)
              /\ call.rewrite => /\ manifests[TestDir].hasDevDependencies
                                 /\ manifests[TestDir].devDependencies = EmptyMap

\* C8 witness: a manifest with neither key has been rewritten on disk
C8_Witness ==
    /\ call.op = "updateDependencies" /\ call.rewrite
    /\ ~call.before.hasDependencies /\ ~call.before.hasDevDependencies
    /\ manifests[TestDir].hasDependencies /\ manifests[TestDir].hasDevDependencies

-----------------------------------------------------------------------------
(* Plugin links, the fetch, aliases, dev mode *)

\* C11: every entry whose plugin links are recorded has, when it declares
\* plugin subfolders, one recorded link per subfolder at
\* <pluginsFolder>/basename(subfolder) leading to that subfolder of its
\* materialized directory, and when it declares none exactly one recorded
\* link at <pluginsFolder>/basename(materialized directory) leading to the
\* root of its materialized directory
C11_PluginLinks ==
    \A e \in Entries :
        sources[e].hasPluginLinks =>
            LET src == sources[e]
                links == src.pluginSymbolicLinks
            IN IF src.hasPlugins
               THEN /\ Len(links) = Len(src.plugins)
                    /\ \A i \in 1..Len(src.plugins) :
                         LET d == pluginsFolder \o << Basename(src.plugins[i]) >>
                         IN /\ d \in Range(links)
                            /\ d \in DOMAIN symlinks
                            /\ symlinks[d] = src.clonedDir \o src.plugins[i]
               ELSE LET d == pluginsFolder \o << Basename(src.clonedDir) >>
                    IN /\ links = << d >>
                       /\ d \in DOMAIN symlinks
                       /\ symlinks[d] = src.clonedDir

\* the Repository.clone calls made for entry e: <<e, locator, ref>>
FetchesOf(e) == { f \in hist.fetched : f[1] = e }

\* C12: an entry whose (possibly aliased) source is an existing local path
\* has exactly that path as its materialized directory and no repository
\* clone is made for it; entries with the same existing local path get the
\* same materialized directory, none of them with a clone
C12_LocalPathShortCircuit ==
    /\ \A e \in Entries :
         (pc[e] # "idle" /\ sources[e].source \in ExistingDirs) =>
            /\ sources[e].hasClonedDir
            /\ sources[e].clonedDir = sources[e].source
            /\ FetchesOf(e) = {}
    /\ \A e1, e2 \in Entries :
         ( /\ pc[e1] # "idle" /\ pc[e2] # "idle"
           /\ sources[e1].source \in ExistingDirs
           /\ sources[e1].source = sources[e2].source ) =>
            /\ sources[e1].clonedDir = sources[e2].clonedDir
            /\ FetchesOf(e1) \cup FetchesOf(e2) = {}

\* two entries with the same existing local path have both gone through
\* clone(), and the run has finished
C12_Witness ==
    /\ gpc = "done"
    /\ \E e1, e2 \in Entries :
         /\ e1 # e2
         /\ sources[e1].source \in ExistingDirs
         /\ sources[e1].source = sources[e2].source
         /\ sources[e1].clonedDir = sources[e1].source
         /\ sources[e2].clonedDir = sources[e1].source

\* C13: an entry whose declared locator is a key of the alias map carries the
\* mapped replacement once dispatched and is never fetched from the declared
\* locator; an entry whose locator is no key keeps its declared locator
C13_AliasSubstitution ==
    \A e \in Entries :
        pc[e] # "idle" =>
            LET d == hist.declared[e].source
            IN IF d \in DOMAIN sourceLocationAliases
               THEN /\ sources[e].source = sourceLocationAliases[d]
                    /\ \A f \in FetchesOf(e) : f[2] # d
               ELSE sources[e].source = d

\* C16: in dev mode every dispatched entry carries the ref 'main' and every
\* repository clone is made with 'main', whatever the entry declares; without
\* dev mode both are the declared ref
C16_DevModeRef ==
    \A e \in Entries :
        pc[e] # "idle" =>
            LET ref == IF isDevMode THEN "main" ELSE hist.declared[e].checkoutTo
            IN /\ sources[e].checkoutTo = ref
               /\ \A f \in FetchesOf(e) : f[3] = ref

\* in dev mode a repository has been cloned with 'main' for an entry that
\* declares another ref
C16_Witness ==
    /\ isDevMode
    /\ \E e \in Entries :
         /\ hist.declared[e].checkoutTo = "foo"
         /\ pc[e] = "done"
         /\ \E f \in FetchesOf(e) : f[3] = "main"

-----------------------------------------------------------------------------
(* Configuration, the workspace index, failed fetches, the two configs *)

\* nothing of the workspace has been touched and no entry has been started
Untouched ==
    /\ \A e \in Entries : pc[e] = "idle" /\ hist.steps[e] = <<>> /\ pending[e] = {}
    /\ sources = hist.declared
    /\ extensions = <<>>
    /\ hist.phases = <<>> /\ hist.fetched = {}
    /\ globalDevDependencies = EmptyMap
    /\ symlinks = EmptyMap
    /\ manifests = InitialManifests
    /\ assemblyObj = InitialAssembly /\ assemblyDisk = InitialAssembly
    /\ ~yarnWorkspaces.built
    /\ rootRefs = InitialRootRefs /\ asmRefs = InitialAsmRefs

\* C17: generate is entered only with a configuration obtained (a given path
\* that exists, or the downloaded default); a given path that does not exist
\* ends the call with 'Config file does not exists', a failed download of
\* the default with the network error, and after either nothing has been
\* touched: no entry cloned, linked, rewritten or inserted
C17_ConfigBeforeGenerate ==
    /\ gpc = "start" =>
         \/ hist.config.configPath \in ExistingConfigs
         \/ hist.config.configPath = "undefined" /\ hist.config.downloaded
    /\ hist.config.configPath \notin (ExistingConfigs \cup {"undefined", ""}) =>
         gpc = "aborted" /\ hist.config.error = "Config file does not exists"
    /\ (hist.config.configPath = "undefined" /\ ~hist.config.downloaded) =>
         gpc = "aborted" /\ hist.config.error = "network error"
    /\ gpc \in {"read", "aborted"} => Untouched

\* a call with a config path that does not exist has been rejected
C17_Witness ==
    /\ gpc = "aborted"
    /\ hist.config.configPath = "conf/none.yml"
    /\ hist.config.error = "Config file does not exists"

\* C18: reference updates are performed only with a non-empty index built;
\* when every entry has finished and generate has rejected (getYarnWorkspaces
\* threw on an empty index), no entry's references and neither config have
\* been updated
C18_EmptyIndexAborts ==
    /\ ( \/ hist.phases # <<>>
         \/ \E e \in Entries : pc[e] \in {"refs", "finished"}
         \/ \E e \in Entries : StepIndex(e, "refs") # 0 ) =>
            yarnWorkspaces.built /\ DOMAIN yarnWorkspaces.index # {}
    /\ (gpc = "rejected" /\ \A e \in Entries : pc[e] = "done") =>
         /\ ~yarnWorkspaces.built
         /\ hist.phases = <<>>
         /\ \A e \in Entries : StepIndex(e, "refs") = 0
         /\ \A d \in DOMAIN tsRefs : tsRefs[d] = {}
         /\ rootRefs = InitialRootRefs /\ asmRefs = InitialAsmRefs

\* every entry has been pushed and generate has rejected on the empty index
C18_Witness ==
    /\ gpc = "rejected"
    /\ Len(extensions) = Len(sources)
    /\ \A e \in Entries : pc[e] = "done" /\ sources[e].hasExtLinks

\* entry e's Repository.clone has rejected
FetchFailed(e) ==
    /\ pc[e] = "failed"
    /\ FetchesOf(e) # {}
    /\ StepIndex(e, "clone") = 0

\* C19: an entry whose fetch has failed has no materialized directory, no
\* recorded extension or plugin link, has rewritten nothing, has inserted
\* nothing into the aggregate manifest and written nothing of it, has no
\* link call in flight and is not among the pushed entries; no link leads
\* into the directory its clone would have made
C19_FailedFetchContributesNothing ==
    \A e \in Entries :
        FetchFailed(e) =>
            /\ ~sources[e].hasClonedDir /\ sources[e].clonedDir = <<>>
            /\ ~sources[e].hasExtLinks /\ sources[e].extSymbolicLinks = <<>>
            /\ ~sources[e].hasPluginLinks /\ sources[e].pluginSymbolicLinks = <<>>
            /\ hist.steps[e] = <<>>
            /\ inflight[e] = EmptyMap
            /\ pending[e] = {} /\ linkAcc[e] = <<>>
            /\ e \notin Range(extensions)
            /\ \A l \in DOMAIN symlinks :
                 LET dir == cheTheiaFolder \o << Basename(sources[e].source) >>
                 IN SubSeq(symlinks[l], 1, Len(dir)) # dir

\* an entry's fetch has failed and another entry has since run to its end
C19_Witness ==
    \E e1, e2 \in Entries :
        /\ FetchFailed(e1)
        /\ pc[e2] = "done"
        /\ assemblyObj # InitialAssembly

\* no path occurs twice in a references list
NoDuplicates(refs) ==
    \A i, j \in 1..Len(refs) : i # j => refs[i] # refs[j]

\* the paths of the indexed workspace packages as seen from folder
IndexedPaths(folder) ==
    { PathRelative(folder, yarnWorkspaces.index[n]) : n \in DOMAIN yarnWorkspaces.index }

\* C20: the references of the root config and of the aggregate config never
\* hold a path twice and always hold the paths they held before the run;
\* once a config has been updated it holds the path of every workspace
\* package, and updating it again leaves it as it is
C20_ReferencesAdditive ==
    /\ NoDuplicates(rootRefs) /\ NoDuplicates(asmRefs)
    /\ Range(InitialRootRefs) \subseteq Range(rootRefs)
    /\ Range(InitialAsmRefs) \subseteq Range(asmRefs)
    /\ gpc \in {"assemblyTs", "done"} =>
         /\ IndexedPaths(rootFolder) \subseteq Range(rootRefs)
         /\ AppendMissing(rootRefs, WorkspaceReferences(rootFolder)) = rootRefs
    /\ gpc = "done" =>
         /\ IndexedPaths(assemblyFolder) \subseteq Range(asmRefs)
         /\ AppendMissing(asmRefs, WorkspaceReferences(assemblyFolder)) = asmRefs

\* a finished run whose configs held a workspace package's path before the
\* run and have got new paths
C20_Witness ==
    /\ gpc = "done"
    /\ Len(rootRefs) > Len(InitialRootRefs)
    /\ Len(asmRefs) > Len(InitialAsmRefs)
    /\ IndexedPaths(rootFolder) \cap Range(InitialRootRefs) # {}
    /\ IndexedPaths(assemblyFolder) \cap Range(InitialAsmRefs) # {}

-----------------------------------------------------------------------------
(* Alias parsing (specification SpecAlias) *)

\* the override strings of the last call
Overrides == IF call.op = "initSourceLocationAliases" THEN Range(call.alias.list) ELSE {}

\* an override string contains '='
HasEq(str) == \E i \in 1..Len(str) : str[i] = "="

\* the position of the first '=' of an override string that contains one
FirstEq(str) == CHOOSE i \in 1..Len(str) : str[i] = "=" /\ \A j \in 1..(i - 1) : str[j] # "="

\* what stands before, and after, the first '='
KeyPart(str) == SubSeq(str, 1, FirstEq(str) - 1)
ValuePart(str) == SubSeq(str, FirstEq(str) + 1, Len(str))

\* C14: after initSourceLocationAliases, every override string that contains
\* '=' has its part before the first '=' as a key; the key's value is the
\* part after the first '=' of the last override string with that key; and a
\* list of strings that all contain '=' adds no other key
C14_AliasParsing ==
    call.op = "initSourceLocationAliases" =>
        LET list == call.alias.list
        IN /\ \A i \in 1..Len(list) :
                HasEq(list[i]) =>
                   /\ KeyPart(list[i]) \in DOMAIN sourceLocationAliases
                   /\ (\A j \in (i + 1)..Len(list) :
                          ~(HasEq(list[j]) /\ KeyPart(list[j]) = KeyPart(list[i])))
                        => sourceLocationAliases[KeyPart(list[i])] = ValuePart(list[i])
           /\ (\A i \in 1..Len(list) : HasEq(list[i])) =>
                DOMAIN sourceLocationAliases =
                    DOMAIN call.before \cup { KeyPart(list[i]) : i \in 1..Len(list) }

\* C15: when no override string of the call contains '=', the alias map is
\* what it was before the call
C15_MalformedIgnored ==
    ( /\ call.op = "initSourceLocationAliases"
      /\ \A str \in Overrides : ~HasEq(str) ) =>
        sourceLocationAliases = call.before

-----------------------------------------------------------------------------
(* Order of the steps, the derived fields, the workspace index *)

\* the steps of an entry that has gone through everything
WholeLog == Append(FullPipeline, "refs")

\* C23: the log of every entry is a beginning of clone, extension linking,
\* rewrite, insertion, write of the aggregate manifest, plugin linking, push,
\* reference update, each step once; link calls are in flight only after the
\* clone, extension-link calls only before the rewrite and the insertion,
\* plugin-link calls only after the aggregate manifest has been written and
\* never while that write is under way; a rewrite has happened only with the
\* extension links recorded, and a reference update only with the entry's
\* packages rewritten on disk
C23_StepsSequential ==
    \A e \in Entries :
        /\ \E n \in 0..Len(WholeLog) : hist.steps[e] = SubSeq(WholeLog, 1, n)
        /\ (pending[e] # {} \/ pc[e] = "symlink") => StepIndex(e, "clone") = 1
        /\ (\E c \in pending[e] : c[1] = "ext") =>
              StepIndex(e, "rewrite") = 0 /\ StepIndex(e, "insert") = 0
        /\ (\E c \in pending[e] : c[1] = "plugin") => StepIndex(e, "persist") # 0
        /\ pc[e] = "write" => pending[e] = {}
        /\ (StepIndex(e, "rewrite") # 0 \/ StepIndex(e, "insert") # 0) =>
              sources[e].hasExtLinks
        /\ StepIndex(e, "refs") # 0 => Rewritten(e)

\* an entry with two extension folders and a plugin folder has gone through
\* every step, in a run of two entries
C23_Witness ==
    /\ Len(sources) = 2
    /\ \E e \in Entries :
         /\ hist.steps[e] = WholeLog
         /\ Len(sources[e].extSymbolicLinks) = 2
         /\ Len(sources[e].pluginSymbolicLinks) = 1

\* C24: the materialized directory is unset before the clone step is logged
\* and each link list before its linking step is logged, and a step never
\* changes one of the three that is set
C24_DerivedFieldsSetOnce ==
    /\ [](\A e \in Entries :
            /\ sources[e].hasClonedDir => StepIndex(e, "clone") # 0
            /\ sources[e].hasExtLinks => StepIndex(e, "symlink") # 0
            /\ sources[e].hasPluginLinks => StepIndex(e, "plugins") # 0)
    /\ [][\A e \in Entries :
            /\ sources[e].hasClonedDir =>
                  sources'[e].hasClonedDir /\ sources'[e].clonedDir = sources[e].clonedDir
            /\ sources[e].hasExtLinks =>
                  /\ sources'[e].hasExtLinks
                  /\ sources'[e].extSymbolicLinks = sources[e].extSymbolicLinks
            /\ sources[e].hasPluginLinks =>
                  /\ sources'[e].hasPluginLinks
                  /\ sources'[e].pluginSymbolicLinks = sources[e].pluginSymbolicLinks]_vars

\* an entry cloned from a repository has its directory and its extension
\* links set and its plugin links not yet
C24_Witness ==
    \E e \in Entries :
        /\ FetchesOf(e) # {}
        /\ sources[e].hasClonedDir /\ sources[e].hasExtLinks
        /\ ~sources[e].hasPluginLinks
        /\ pc[e] = "write"

\* C25: the index is built once, with every entry pushed; before it is built no
\* reference update has started; every reference update gets the index that
\* has been built; once built it does not change
C25_IndexBuiltOnce ==
    /\ [](/\ Cardinality({ i \in 1..Len(hist.phases) : hist.phases[i] = "index" })
              = (IF yarnWorkspaces.built THEN 1 ELSE 0)
          /\ yarnWorkspaces.built =>
               (\A e \in Entries :
                   /\ Len(hist.steps[e]) >= Len(FullPipeline)
                   /\ SubSeq(hist.steps[e], 1, Len(FullPipeline)) = FullPipeline
                   /\ pc[e] \in {"refs", "finished"}
                   /\ pending[e] = {})
          /\ ~yarnWorkspaces.built =>
               (\A e \in Entries :
                   StepIndex(e, "refs") = 0 /\ pc[e] \notin {"refs", "finished"}))
    /\ [](\A c \in hist.refCalls : c.index = yarnWorkspaces.index)
    /\ [][yarnWorkspaces.built => yarnWorkspaces' = yarnWorkspaces]_vars

\* the index has been built and the first of two entries' reference updates
\* has run
C25_Witness ==
    /\ yarnWorkspaces.built
    /\ Len(sources) = 2
    /\ pc[1] = "finished" /\ pc[2] = "refs"

\* the next step of entry e's pipeline
EntryStep(e) ==
    \/ CloneDone(e)
    \/ CloneFail(e)
    \/ SymlinkStart(e)
    \/ \E c \in pending[e] : ExtLinkDone(e, c)
    \/ \E c \in pending[e] : LinkFail(e, c)
    \/ UpdateDependenciesDone(e)
    \/ InsertExtensionIntoAssembly(e)
    \/ AssemblyWriteDone(e)
    \/ \E c \in pending[e] : PluginLinkDone(e, c)

\* C26: after generate has rejected, every entry that has neither failed
\* itself nor reached the end of its pipeline can take its next step, and a
\* link call in flight can complete whatever has become of its entry
C26_NoCancellation ==
    gpc = "rejected" =>
        \A e \in Entries :
            (pc[e] \notin {"failed", "done"} \/ pending[e] # {}) => ENABLED EntryStep(e)

\* generate has rejected on the failure of one entry while another entry is
\* about to rewrite its manifests
C26_Witness ==
    /\ gpc = "rejected"
    /\ \E e1, e2 \in Entries :
         /\ pc[e1] = "failed"
         /\ pc[e2] = "update"

\* C27: every link an entry records leads into that entry's own materialized
\* directory, so the manifests rewritten on its behalf are its own
C27_EntriesIndependent ==
    \A e \in Entries :
        sources[e].hasExtLinks =>
            \A l \in Range(sources[e].extSymbolicLinks) :
                /\ l \in DOMAIN symlinks
                /\ SubSeq(symlinks[l], 1, Len(sources[e].clonedDir)) = sources[e].clonedDir

\* C28: every call of the reference updater is for a package whose entry's
\* rewrite is in the log before the reference update and which is in
\* rewritten form on disk, and the names it gets are exactly the keys of the
\* package's dependencies mapping on disk
C28_ReferenceKeysFromRewritten ==
    \A c \in hist.refCalls :
        /\ 0 < StepIndex(c.e, "rewrite")
        /\ StepIndex(c.e, "rewrite") < StepIndex(c.e, "refs")
        /\ Rewritten(c.e)
        /\ PackageAt(c.symbolicLink).hasDependencies
        /\ c.keys = DOMAIN PackageAt(c.symbolicLink).dependencies

\* the reference updater has been called for a package whose dependencies
\* and devDependencies have different names
C28_Witness ==
    \E c \in hist.refCalls :
        /\ c.keys # {}
        /\ DOMAIN PackageAt(c.symbolicLink).devDependencies \ c.keys # {}

-----------------------------------------------------------------------------
(* The persistence flag (specification SpecDeps) *)

\* C22: after updateDependencies has been called with rewrite = false, the
\* package.json on disk is what it was before the call
C22_DryRunWritesNothing ==
    (call.op = "updateDependencies" /\ ~call.rewrite) =>
        \A d \in DOMAIN manifests : manifests[d] = call.before

\* a call with rewrite = false on a manifest the rewrite would change
C22_Witness ==
    /\ call.op = "updateDependencies" /\ ~call.rewrite
    /\ call.result # call.before
    /\ manifests[TestDir] = call.before

-----------------------------------------------------------------------------
(* A second call on the same instance (specification SpecTwice) *)

\* C21: when a call of generate has resolved, the processed-entries list
\* holds exactly the entries that call's configuration declares, each once,
\* and the version set is exactly the root manifest's devDependencies
C21_FreshPerRun ==
    gpc = "done" =>
        /\ Range(extensions) = Current
        /\ Len(extensions) = Cardinality(Current)
        /\ globalDevDependencies = manifests[rootFolder].devDependencies
\* the plugin destinations of entry e that no other entry has
OwnPluginDests(e) ==
    { CallDest(sources[e], c) : c \in PluginCalls(sources[e]) }
    \ UNION { { CallDest(sources[o], c) : c \in PluginCalls(sources[o]) } :
                o \in { x \in Entries \ {e} : sources[x].hasClonedDir } }

\* C30: plugin linking comes after the rewrite and the write of the aggregate
\* manifest (a plugin-link call in flight, or a recorded plugin link list,
\* only with both in the entry's log), and an entry whose rewrite or whose
\* write of the aggregate manifest failed has ended: it starts no plugin
\* link, none of its own plugin links exists and its plugin link list is unset
C30_PluginLinkingLast ==
    \A e \in Entries :
        /\ ((\E c \in pending[e] : c[1] = "plugin") \/ sources[e].hasPluginLinks) =>
              /\ StepIndex(e, "rewrite") # 0
              /\ StepIndex(e, "persist") # 0
              /\ StepIndex(e, "rewrite") < StepIndex(e, "persist")
        /\ (StepIndex(e, "rewriteFailed") # 0 \/ StepIndex(e, "insertFailed") # 0) =>
              /\ pc[e] = "failed"
              /\ pending[e] = {}
              /\ ~sources[e].hasPluginLinks
              /\ StepIndex(e, "plugins") = 0
              /\ OwnPluginDests(e) \cap DOMAIN symlinks = {}

\* in a run of two entries the write of the aggregate manifest has failed for
\* one, after its rewrite, and the rewrite for the other, and a plugin folder
\* that only the first declares is not linked
C30_Witness ==
    /\ Len(sources) = 2
    /\ \E e1, e2 \in Entries :
         /\ StepIndex(e1, "rewrite") # 0 /\ StepIndex(e1, "insertFailed") # 0
         /\ StepIndex(e2, "rewriteFailed") # 0
         /\ OwnPluginDests(e1) # {}

-----------------------------------------------------------------------------
(* The preferences provider (specification SpecPrefs) *)

\* the value of the first CHE_THEIA_SIDECAR_PREFERENCES variable of a
\* component status (the empty text without one: see HasPreferencesEnv)
PreferencesText(componentStatus) ==
    LET named == SelectSeq(componentStatus.env, LAMBDA x : x.name = SIDECAR_PREFERENCES)
    IN IF named = <<>> THEN <<>> ELSE Head(named).value

HasPreferencesEnv(componentStatus) ==
    /\ componentStatus.defined /\ componentStatus.hasEnv
    /\ \E i \in 1..Len(componentStatus.env) :
          componentStatus.env[i].name = SIDECAR_PREFERENCES

\* the component status's variable holds a text that is not JSON
InvalidPreferences(componentStatus) ==
    /\ HasPreferencesEnv(componentStatus)
    /\ PreferencesText(componentStatus) \in InvalidTexts

\* the component statuses with the i-th one's environment taken away
WithoutEnv(componentStatuses, i) ==
    [componentStatuses EXCEPT ![i].hasEnv = FALSE, ![i].env = <<>>]

\* the devfile has components and none carries preferences in its attributes
SidecarPath(devfile) ==
    /\ devfile.hasComponents
    /\ \A i \in 1..Len(devfile.components) :
          ~devfile.components[i].hasVscodePreferences
             \/ devfile.components[i].vscodePreferences = <<>>

\* the tuples of the plugin components of a devfile, in the devfile's order
PluginTuples(devfile) ==
    Tuples([i \in 1..Len(devfile.components) |->
               IF devfile.components[i].hasPlugin /\ devfile.components[i].hasPreferences
               THEN devfile.components[i].preferences ELSE <<>>])

\* C29 as stated, of every call: a component whose variable is not JSON is
\* logged, the call does not throw, and it returns the preferences of the
\* devfile plugin sections and then what it returns for the other components
C29_InvalidJsonSkipped ==
    call.op = "getPluginsProperties" =>
        \A i \in 1..Len(call.componentStatuses) :
            InvalidPreferences(call.componentStatuses[i]) =>
                /\ \E n \in 1..Len(call.result.errors) :
                      call.result.errors[n] = call.componentStatuses[i].name
                /\ ~call.result.threw
                /\ LET others == getPluginsProperties(
                                     [hasComponents |-> TRUE, components |-> <<>>],
                                     WithoutEnv(call.componentStatuses, i))
                   IN call.result.tuples = PluginTuples(call.devfile) \o others.tuples

\* C29, amended: when the devfile has components and none carries
\* preferences in its attributes, a component whose variable is not JSON is
\* logged once, and the call throws exactly when, and returns exactly what,
\* it does with that component's environment taken away; it throws only if
\* the variable of another component holds the JSON null, and otherwise
\* returns the preferences of the devfile plugin sections first
C29_InvalidJsonSkippedOnSidecarPath ==
    (call.op = "getPluginsProperties" /\ SidecarPath(call.devfile)) =>
        \A i \in 1..Len(call.componentStatuses) :
            InvalidPreferences(call.componentStatuses[i]) =>
                LET without == getPluginsProperties(call.devfile,
                                                    WithoutEnv(call.componentStatuses, i))
                    name == call.componentStatuses[i].name
                IN /\ Len(SelectSeq(call.result.errors, LAMBDA x : x = name)) = 1
                   /\ SelectSeq(call.result.errors, LAMBDA x : x # name) = without.errors
                   /\ call.result.threw = without.threw
                   /\ call.result.tuples = without.tuples
                   /\ call.result.threw <=>
                         \E j \in 1..Len(call.componentStatuses) :
                             /\ HasPreferencesEnv(call.componentStatuses[j])
                             /\ PreferencesText(call.componentStatuses[j]) = << Tok("null") >>
                   /\ ~call.result.threw =>
                         SubSeq(call.result.tuples, 1, Len(PluginTuples(call.devfile)))
                             = PluginTuples(call.devfile)

\* a call with a plugin component that has preferences, a first component
\* whose variable is an object that is not closed, and a second component
\* whose variable is an object of two members: three tuples are returned
C29_Witness ==
    /\ call.op = "getPluginsProperties"
    /\ SidecarPath(call.devfile)
    /\ Len(call.componentStatuses) = 2
    /\ InvalidPreferences(call.componentStatuses[1])
    /\ PreferencesText(call.componentStatuses[1]) = << Tok("{"), Member("a", "1") >>
    /\ call.result.errors = << "c1" >>
    /\ call.result.tuples = << <<"java.home", "/jdk">>, <<"a", "1">>, <<"b", "2">> >>

-----------------------------------------------------------------------------
(* Lists that are there and empty (specification SpecLists) *)

\* C31: a recorded extension link list has one link per declared folder when
\* the extensions list is there (none for an empty list) and is the one link
\* of the cloned root when it is not, and the same for the plugin link list
\* and the plugins list; and the rewrite step of an entry with an empty
\* extensions list changes no manifest, its insertion step not the aggregate
\* manifest's dependencies
C31_LinksPerDeclaredFolder ==
    /\ [](\A e \in Entries :
            /\ sources[e].hasExtLinks =>
                  IF sources[e].hasExtensions
                  THEN /\ Len(sources[e].extSymbolicLinks) = Len(sources[e].extensions)
                       /\ ExtDest(sources[e].clonedDir)
                             \in Range(sources[e].extSymbolicLinks)
                             => \E i \in 1..Len(sources[e].extensions) :
                                   Basename(sources[e].extensions[i])
                                      = Basename(sources[e].clonedDir)
                  ELSE sources[e].extSymbolicLinks = << ExtDest(sources[e].clonedDir) >>
            /\ sources[e].hasPluginLinks =>
                  IF sources[e].hasPlugins
                  THEN /\ Len(sources[e].pluginSymbolicLinks) = Len(sources[e].plugins)
                       /\ PluginDest(sources[e].clonedDir)
                             \in Range(sources[e].pluginSymbolicLinks)
                             => \E i \in 1..Len(sources[e].plugins) :
                                   Basename(sources[e].plugins[i])
                                      = Basename(sources[e].clonedDir)
                  ELSE sources[e].pluginSymbolicLinks = << PluginDest(sources[e].clonedDir) >>)
    /\ [][\A e \in Entries :
            (sources[e].hasExtensions /\ sources[e].extensions = <<>>) =>
                /\ (pc[e] = "update" /\ pc'[e] = "insert") => manifests' = manifests
                /\ (pc[e] = "insert" /\ pc'[e] = "write") => assemblyObj' = assemblyObj]_vars

\* an entry with `extensions: []` and `plugins: []` has been pushed with both
\* link lists recorded and empty, next to an entry whose packages have been
\* inserted
C31_Witness ==
    /\ Len(sources) = 2
    /\ \E e, o \in Entries :
         /\ sources[e].hasExtensions /\ sources[e].extensions = <<>>
         /\ sources[e].hasPlugins /\ sources[e].plugins = <<>>
         /\ sources[e].hasExtLinks /\ sources[e].extSymbolicLinks = <<>>
         /\ sources[e].hasPluginLinks /\ sources[e].pluginSymbolicLinks = <<>>
         /\ StepIndex(e, "push") # 0
         /\ Len(sources[o].extSymbolicLinks) = 2
         /\ assemblyObj # InitialAssembly

-----------------------------------------------------------------------------
(* The preferences provider's writes (specification SpecProvider) *)

\* the text of a tuple is not JSON: the empty, unclosed and unopened texts
\* of InvalidTexts, and a bare path
NotJson(value) == value \in InvalidTexts \cup { << Tok("/jdk") >> }

\* C38: after setPluginProperties, whatever writes have landed, a key that
\* had a value when it was called has that value; there is one turn of the
\* loop per tuple; set was called in a turn exactly when has(key) was false,
\* at Workspace scope, and then with the text itself when the text is not
\* JSON; and the set calls are the ones of the turns, in order
C38_NeverOverrides ==
    call.op = "setPluginProperties" =>
        /\ \A k \in DOMAIN call.before :
              k \in DOMAIN workspacePreferences
                 /\ workspacePreferences[k] = call.before[k]
        /\ Len(setLog) = Len(call.props)
        /\ \A i \in 1..Len(setLog) :
              /\ setLog[i].key = call.props[i][1]
              /\ setLog[i].has = (call.props[i][1] \in DOMAIN call.before)
              /\ Len(setLog[i].sets) = (IF setLog[i].has THEN 0 ELSE 1)
              /\ \A n \in 1..Len(setLog[i].sets) :
                    /\ setLog[i].sets[n].key = call.props[i][1]
                    /\ setLog[i].sets[n].scope = "Workspace"
                    /\ NotJson(call.props[i][2]) =>
                          /\ setLog[i].warned
                          /\ setLog[i].sets[n].value.kind = "string"
                          /\ setLog[i].sets[n].value.raw = call.props[i][2]
                    /\ ~NotJson(call.props[i][2]) =>
                          /\ ~setLog[i].warned
                          /\ setLog[i].sets[n].value.kind # "string"
        /\ \A n \in 1..Len(pendingSets) :
              pendingSets[n].key \notin DOMAIN call.before

\* three tuples: a key that has a value, then a key without one whose text
\* is not JSON, then that key again with a JSON text; the writes have landed,
\* the first key has its old value and the second the value of the last tuple
C38_Witness ==
    /\ call.op = "setPluginProperties"
    /\ Len(call.props) = 3
    /\ call.props[1][1] = "a" /\ "a" \in DOMAIN call.before
    /\ call.props[2] = << "b", << Tok("{"), Member("a", "1") >> >>
    /\ call.props[3] = << "b", << Tok("1") >> >>
    /\ "b" \notin DOMAIN call.before
    /\ pendingSets = <<>>
    /\ workspacePreferences["a"] = Raw(<< Tok("/old") >>)
    /\ workspacePreferences["b"].kind = "number"

-----------------------------------------------------------------------------
(* The theme synchronizer (specification SpecTheme) *)

\* the calls the handlers have made in the course of change number n
CallsOf(n, op) ==
    { i \in 1..Len(themeLog.calls) :
         themeLog.calls[i].cause = n /\ themeLog.calls[i].op = op }

\* C32: a change of the preference has caused one setCurrentTheme call and no
\* write of the preference, a change of the theme in the UI one write of the
\* preference at User scope and no setCurrentTheme call
C32_NoEchoLoop ==
    \A n \in 1..Len(themeLog.changes) :
        IF themeLog.changes[n] = "preference"
        THEN /\ Cardinality(CallsOf(n, "setCurrentTheme")) = 1
             /\ CallsOf(n, "set") = {}
        ELSE /\ Cardinality(CallsOf(n, "set")) = 1
             /\ \A i \in CallsOf(n, "set") : themeLog.calls[i].scope = "User"
             /\ CallsOf(n, "setCurrentTheme") = {}

\* C33: with no preference write under way, both flags are false
C33_FlagsClearedWhenQuiet ==
    prefEvents = <<>> => (~uiChange /\ ~preferenceChange)

-----------------------------------------------------------------------------
(* The remote terminal widget (specification SpecWidget) *)

\* the tasks that reach connectSocket in this step: start has got its
\* terminal id and goes on to await the Deferred
CallsConnectSocket ==
    { t \in 1..Len(tasks') :
         /\ tasks'[t].pc = "wait"
         /\ t \in 1..Len(tasks) => tasks[t].pc # "wait" }

\* C34: at most one socket is ever created for the widget, and there is one
\* exactly when the field holds one; a connectSocket call made with a socket
\* creates none, leaves the socket as it is, and the Deferred the field holds
\* is resolved after it
C34_OneSocketReused ==
    /\ [](widgetLog.sockets <= 1 /\ (socket = "none" <=> widgetLog.sockets = 0))
    /\ [][(CallsConnectSocket # {} /\ socket # "none")
            => /\ socket' = socket
               /\ widgetLog'.sockets = widgetLog.sockets
               /\ waitForRemoteConnection'.gen = waitForRemoteConnection.gen
               /\ waitForRemoteConnection'.resolved]_vars

\* the start of a reconnect has reached connectSocket with the one socket
\* there and has resolved the Deferred installed when the connection opened
C34_Witness ==
    /\ widgetLog.sockets = 1
    /\ \E g \in DOMAIN widgetLog.resolved :
          /\ g > 0
          /\ widgetLog.resolved[g] = "reconnect"

\* C35: the exit or error handler has never run for the widget's terminal
\* id, with closeWidgetOnExitOrError false, while
\* closeOutputConnectionDisposable was undefined
C35_DisposableAssignedWhenHandled ==
    ~widgetLog.typeError

\* the step in which the check of a reconnect is answered: with a valid id
\* start is called with the widget's terminal id, which the server has;
\* otherwise reconnectTerminalProcess returns, and the step creates no
\* terminal and leaves the Deferred, the socket and the terminal id alone
ReconnectStartsOnlyOnValidCheck ==
    \A t \in 1..Len(tasks) :
        (tasks[t].pc = "check" /\ tasks'[t].pc # "check")
           => LET g == tasks[t].gen
              IN /\ g \in DOMAIN widgetLog'.reconnects
                 /\ IF widgetLog'.reconnects[g]
                    THEN /\ tasks'[t].pc = "attach"
                         /\ tasks'[t].arg = terminalId
                         /\ terminalId \in server.terminals
                    ELSE /\ tasks'[t].pc = "returned"
                         /\ server' = server
                         /\ waitForRemoteConnection' = waitForRemoteConnection
                         /\ socket' = socket
                         /\ terminalId' = terminalId

\* C36 as stated: start is called by a reconnect only on a valid check, and
\* after an invalid one the Deferred installed on reopen, while the field
\* holds it, is unresolved
C36_InvalidCheckLeavesUnresolved ==
    /\ [][ReconnectStartsOnlyOnValidCheck]_vars
    /\ [](\A g \in DOMAIN widgetLog.reconnects :
             (~widgetLog.reconnects[g] /\ waitForRemoteConnection.gen = g)
                => ~waitForRemoteConnection.resolved)

\* C36, amended: start is called by a reconnect only on a valid check; after
\* an invalid one the reconnect itself leaves the Deferred unresolved, which
\* is resolved only by socket.onopen or by the connectSocket of another start
C36_InvalidCheckResolvesNothing ==
    /\ [][ReconnectStartsOnlyOnValidCheck]_vars
    /\ [](\A g \in DOMAIN widgetLog.reconnects \cap DOMAIN widgetLog.resolved :
             ~widgetLog.reconnects[g]
                => \/ widgetLog.resolved[g] = "onopen"
                   \/ widgetLog.resolved[g] = "user"
                   \/ \E h \in DOMAIN widgetLog.reconnects \ {g} :
                         widgetLog.reconnects[h])

\* the check of a reconnect was invalid, its call has returned, and the
\* Deferred installed on reopen is the field's and was resolved by onopen
C36_Witness ==
    /\ \E t \in 1..Len(tasks) :
          tasks[t].origin = "reconnect" /\ tasks[t].pc = "returned"
    /\ LET g == waitForRemoteConnection.gen
       IN /\ g \in DOMAIN widgetLog.reconnects
          /\ ~widgetLog.reconnects[g]
          /\ waitForRemoteConnection.resolved
          /\ widgetLog.resolved[g] = "onopen"

\* the step of an exit or error event: for the widget's terminal id the
\* process is gone after it, for another id (or with the handlers disposed)
\* nothing of the widget changes
ExecEventHandled ==
    \A kind \in {"exit", "error"}, id \in EventIds :
        TerminalExec(kind, id)
           => IF ~widgetDisposed /\ terminalId = id
              THEN processGone'
              ELSE UNCHANGED <<termServer, terminalId, socket, waitForRemoteConnection,
                               closeOutputConnectionDisposable, processGone,
                               widgetDisposed, tasks, widgetLog>>

\* C37: an exit or error event for the widget's terminal id sets processGone
\* and one for another id changes nothing; processGone, once true, stays
\* true, and no resize request is sent to the server while it is true
C37_NoResizeOnceGone ==
    /\ [][ExecEventHandled]_vars
    /\ [][processGone => processGone']_vars
    /\ [](widgetLog.resize # "gone")
    /\ [][processGone => widgetLog'.resize = widgetLog.resize]_vars

\* the process is gone, and the timer of the user's start has fired with a
\* server proxy and a valid terminal id without a resize ever being sent
C37_Witness ==
    /\ processGone
    /\ termServer
    /\ ValidateId(terminalId)
    /\ widgetLog.resize = "none"
    /\ \E t \in 1..Len(tasks) :
          tasks[t].origin = "user" /\ tasks[t].pc = "returned"

====
